---------------------------- MODULE Spec2Model ----------------------------
(***************************************************************************)
(* Model of the stop hook of hallucination-detector: the trigger engine    *)
(* (findTriggerMatches and its probes) over JavaScript strings.            *)
(*                                                                         *)
(* Texts are TLA+ strings; indices are 0-based as in JavaScript.  Regular  *)
(* expressions of the source are written as syntax trees and run by a      *)
(* backtracking matcher that returns the possible end positions in the     *)
(* priority order of the JavaScript engine, so that exec() yields the      *)
(* same index and the same m[0] as the source.                             *)
(***************************************************************************)
EXTENDS Integers, Sequences, FiniteSets, TLC

VARIABLES text, ntok, vocab, pc, matches, scores

\* sentence scoring: the weights argument, the config file, and what the
\* scoring functions return
VARIABLES weights, rc, aggregate, label, sentences, results

\* the hook process: the counter file of the session, what the last
\* invocation wrote to stdout, its exit code; the number of block decisions
\* in a row and whether each invocation after a block had stop_hook_active
VARIABLES blocks, stdout, exitCode, streak, cycle

scoringVars == <<weights, rc, aggregate, label, sentences, results>>

hookVars == <<blocks, stdout, exitCode, streak, cycle>>

\* lastIndex of the regular expressions created when the module is loaded;
\* what the latest invocation of the hook read from stdin; the transcript file
VARIABLES lastIndex, stdin, transcript

vars ==
  <<text, ntok, vocab, pc, matches, scores, scoringVars, hookVars, lastIndex, stdin,
    transcript>>

-----------------------------------------------------------------------------
(* JavaScript string primitives *)

Min(S) == CHOOSE x \in S : \A y \in S : x <= y
Max(S) == CHOOSE x \in S : \A y \in S : x >= y
MathMax(a, b) == IF a >= b THEN a ELSE b
MathMin(a, b) == IF a <= b THEN a ELSE b

\* s.slice(a, b) for a, b >= 0 (the source never passes a negative bound).
slice(s, a, b) ==
  LET bb == MathMin(b, Len(s))
  IN  IF a >= bb THEN "" ELSE SubSeq(s, a + 1, bb)

charAt(s, i) == IF i < 0 \/ i >= Len(s) THEN "" ELSE SubSeq(s, i + 1, i + 1)

\* s.indexOf(p, from): first index >= from at which p occurs, or -1.
indexOf(s, p, from) ==
  LET hits == {i \in from..(Len(s) - Len(p)) : SubSeq(s, i + 1, i + Len(p)) = p}
  IN  IF hits = {} THEN -1 ELSE Min(hits)

\* s.lastIndexOf(p, from): last index <= from at which p occurs, or -1.
lastIndexOf(s, p, from) ==
  LET hits == {i \in 0..MathMin(from, Len(s) - Len(p)) : SubSeq(s, i + 1, i + Len(p)) = p}
  IN  IF hits = {} THEN -1 ELSE Max(hits)

includes(s, p) == \E i \in 0..(Len(s) - Len(p)) : SubSeq(s, i + 1, i + Len(p)) = p

LowerLetters ==
  {"a","b","c","d","e","f","g","h","i","j","k","l","m",
   "n","o","p","q","r","s","t","u","v","w","x","y","z"}
UpperLetters ==
  {"A","B","C","D","E","F","G","H","I","J","K","L","M",
   "N","O","P","Q","R","S","T","U","V","W","X","Y","Z"}
DigitChars == {"0","1","2","3","4","5","6","7","8","9"}
WordChars == LowerLetters \cup UpperLetters \cup DigitChars \cup {"_"}
SpaceChars == {" ", "\n", "\t", "\r"}

lowerOf ==
  [c \in UpperLetters |->
     CASE c = "A" -> "a" [] c = "B" -> "b" [] c = "C" -> "c" [] c = "D" -> "d"
       [] c = "E" -> "e" [] c = "F" -> "f" [] c = "G" -> "g" [] c = "H" -> "h"
       [] c = "I" -> "i" [] c = "J" -> "j" [] c = "K" -> "k" [] c = "L" -> "l"
       [] c = "M" -> "m" [] c = "N" -> "n" [] c = "O" -> "o" [] c = "P" -> "p"
       [] c = "Q" -> "q" [] c = "R" -> "r" [] c = "S" -> "s" [] c = "T" -> "t"
       [] c = "U" -> "u" [] c = "V" -> "v" [] c = "W" -> "w" [] c = "X" -> "x"
       [] c = "Y" -> "y" [] c = "Z" -> "z"]

\* s.toLowerCase() on s[lo+1 .. hi], by halves (ASCII: the length is kept).
RECURSIVE lowerRange(_, _, _)
lowerRange(s, lo, hi) ==
  IF lo >= hi THEN ""
  ELSE IF hi = lo + 1
       THEN LET c == SubSeq(s, hi, hi) IN IF c \in UpperLetters THEN lowerOf[c] ELSE c
       ELSE LET mid == (lo + hi) \div 2
            IN  lowerRange(s, lo, mid) \o lowerRange(s, mid, hi)

toLowerCase(s) ==
  IF \E i \in 1..Len(s) : SubSeq(s, i, i) \in UpperLetters
    THEN lowerRange(s, 0, Len(s))
    ELSE s

\* s.trimStart(), s.trimEnd(), s.trim()
trimStart(s) ==
  LET n == Len(s)
      k == CHOOSE j \in 0..n :
             /\ (j = n \/ charAt(s, j) \notin SpaceChars)
             /\ \A i \in 0..(j - 1) : charAt(s, i) \in SpaceChars
  IN  slice(s, k, n)

trimEnd(s) ==
  LET n == Len(s)
      k == CHOOSE j \in 0..n :
             /\ (j = 0 \/ charAt(s, j - 1) \notin SpaceChars)
             /\ \A i \in j..(n - 1) : charAt(s, i) \in SpaceChars
  IN  slice(s, 0, k)

trim(s) == trimEnd(trimStart(s))

startsWith(s, p) == slice(s, 0, Len(p)) = p

-----------------------------------------------------------------------------
(* Regular expressions: syntax trees and the backtracking matcher *)

Lit(str)        == [op |-> "lit", str |-> str]
Cls(set)        == [op |-> "cls", set |-> set]          \* [...]
NotCls(set)     == [op |-> "not", set |-> set]          \* [^...]
WordB           == [op |-> "wordb"]                     \* \b
LineStart       == [op |-> "bol"]                       \* ^ with the m flag
TextStart       == [op |-> "bos"]                       \* ^ without the m flag
Behind(set)     == [op |-> "behind", set |-> set]       \* (?<=[...])
Cat(subs)       == [op |-> "cat", subs |-> subs]
Alt(subs)       == [op |-> "alt", subs |-> subs]
Rep(sub, lo, hi)     == [op |-> "rep", sub |-> sub, lo |-> lo, hi |-> hi, greedy |-> TRUE]
LazyRep(sub, lo, hi) == [op |-> "rep", sub |-> sub, lo |-> lo, hi |-> hi, greedy |-> FALSE]
Inf == -1
Opt(sub)  == Rep(sub, 0, 1)
Star(sub) == Rep(sub, 0, Inf)
Plus(sub) == Rep(sub, 1, Inf)

Word   == Cls(WordChars)       \* \w
Digit  == Cls(DigitChars)      \* \d
Space  == Cls(SpaceChars)      \* \s
AnyCh  == NotCls({})           \* [\s\S]
Dot    == NotCls({"\n", "\r"}) \* .

isWordAt(s, i) == charAt(s, i) \in WordChars

\* one character at i matches a class node
clsAt(re, s, i) ==
  /\ i < Len(s)
  /\ IF re.op = "cls" THEN charAt(s, i) \in re.set ELSE charAt(s, i) \notin re.set

\* first index j >= i at which the class stops matching (or the bound)
runEnd(re, s, i, bound) ==
  CHOOSE j \in i..bound :
    /\ (j = bound \/ ~clsAt(re, s, j))
    /\ \A k \in i..(j - 1) : clsAt(re, s, k)

RECURSIVE ends(_, _, _), stepEnds(_, _, _, _, _), catEnds(_, _, _, _),
          altEnds(_, _, _, _), repEnds(_, _, _, _)

\* The end positions of the matches of re that start at i, in the order in
\* which a backtracking engine tries them.
ends(re, s, i) ==
  CASE re.op = "lit" ->
         IF slice(s, i, i + Len(re.str)) = re.str THEN <<i + Len(re.str)>> ELSE <<>>
    [] re.op \in {"cls", "not"} ->
         IF clsAt(re, s, i) THEN <<i + 1>> ELSE <<>>
    [] re.op = "wordb" ->
         IF isWordAt(s, i - 1) # isWordAt(s, i) THEN <<i>> ELSE <<>>
    [] re.op = "bol" ->
         IF i = 0 \/ charAt(s, i - 1) = "\n" THEN <<i>> ELSE <<>>
    [] re.op = "bos" ->
         IF i = 0 THEN <<i>> ELSE <<>>
    [] re.op = "behind" ->
         IF i > 0 /\ charAt(s, i - 1) \in re.set THEN <<i>> ELSE <<>>
    [] re.op = "cat" -> catEnds(re.subs, 1, s, <<i>>)
    [] re.op = "alt" -> altEnds(re.subs, 1, s, i)
    [] re.op = "rep" ->
         IF re.sub.op \in {"cls", "not"}
           THEN \* a quantified class: the run of matching characters
                LET bound == IF re.hi = Inf THEN Len(s) ELSE MathMin(Len(s), i + re.hi)
                    top   == runEnd(re.sub, s, i, bound)
                    n     == top - (i + re.lo) + 1
                IN  IF n <= 0 THEN <<>>
                    ELSE IF re.greedy THEN [k \in 1..n |-> top - k + 1]
                                      ELSE [k \in 1..n |-> i + re.lo + k - 1]
           ELSE repEnds(re, s, i, 0)

\* ends of sub from each of the starts, concatenated in order (by halves)
stepEnds(sub, s, starts, lo, hi) ==
  IF lo > hi THEN <<>>
  ELSE IF lo = hi THEN ends(sub, s, starts[lo])
  ELSE LET mid == (lo + hi) \div 2
       IN  stepEnds(sub, s, starts, lo, mid) \o stepEnds(sub, s, starts, mid + 1, hi)

catEnds(subs, k, s, starts) ==
  IF k > Len(subs) \/ starts = <<>> THEN starts
  ELSE catEnds(subs, k + 1, s, stepEnds(subs[k], s, starts, 1, Len(starts)))

altEnds(subs, k, s, i) ==
  IF k > Len(subs) THEN <<>>
  ELSE ends(subs[k], s, i) \o altEnds(subs, k + 1, s, i)

\* a quantified group: count iterations done; an empty iteration is not repeated
repEnds(re, s, i, count) ==
  LET once == SelectSeq(ends(re.sub, s, i), LAMBDA e : e # i)
      more == IF re.hi # Inf /\ count >= re.hi THEN <<>>
              ELSE LET RECURSIVE from(_)
                       from(k) == IF k > Len(once) THEN <<>>
                                  ELSE repEnds(re, s, once[k], count + 1) \o from(k + 1)
                   IN  from(1)
      here == IF count >= re.lo THEN <<i>> ELSE <<>>
  IN  IF re.greedy THEN more \o here ELSE here \o more

NoMatch == [index |-> -1, end |-> -1]

\* re.exec(s) searching from index `from`: the leftmost start and, there, the
\* first end in priority order.
execFrom(re, s, from) ==
  LET starts == {i \in from..Len(s) : ends(re, s, i) # <<>>}
  IN  IF starts = {} THEN NoMatch
      ELSE LET i == Min(starts) IN [index |-> i, end |-> Head(ends(re, s, i))]

exec(re, s) == execFrom(re, s, 0)

\* re.test(s)
test(re, s) == \E i \in 0..Len(s) : ends(re, s, i) # <<>>

\* m[0] of a match
matched(s, m) == slice(s, m.index, m.end)

\* a regular expression literal without the g flag: its tree and its i flag
Regex(ast, icase) == [ast |-> ast, icase |-> icase, global |-> FALSE]

subject(R, s) == IF R.icase THEN toLowerCase(s) ELSE s

testRe(R, s) == test(R.ast, subject(R, s))
execRe(R, s) == exec(R.ast, subject(R, s))

\* s.replace(re, '') with the g flag (the patterns used never match empty)
RECURSIVE removeAll(_, _, _)
removeAll(re, s, from) ==
  LET m == execFrom(re, s, from)
  IN  IF m.index = -1 THEN slice(s, from, Len(s))
      ELSE slice(s, from, m.index) \o removeAll(re, s, m.end)

\* s.match(re) with the g flag: the number of matches
RECURSIVE countAll(_, _, _)
countAll(re, s, from) ==
  LET m == execFrom(re, s, from)
  IN  IF m.index = -1 THEN 0
      ELSE 1 + countAll(re, s, IF m.end = m.index THEN m.end + 1 ELSE m.end)

\* s.split(sep) from index `from`, and lines.join(sep)
RECURSIVE split(_, _, _)
split(s, sep, from) ==
  LET k == indexOf(s, sep, from)
  IN  IF k = -1 THEN <<slice(s, from, Len(s))>>
      ELSE <<slice(s, from, k)>> \o split(s, sep, k + Len(sep))

RECURSIVE join(_, _)
join(parts, sep) ==
  IF parts = <<>> THEN ""
  ELSE IF Len(parts) = 1 THEN parts[1]
  ELSE parts[1] \o sep \o join(Tail(parts), sep)

-----------------------------------------------------------------------------
(* Region stripping *)

normalizeForScan(t) == join(split(t, "\r\n", 0), "\n")

\* The TLA+ lexer rejects U+0060 inside a string, so the backtick of the
\* source is written "~" throughout (no pattern of the source uses the tilde).
BT == "~"
FENCE == BT \o BT \o BT

\* /~~~[\s\S]*?~~~/g  and  /~[^~\n]*~/g
FENCE_RE  == Cat(<<Lit(FENCE), LazyRep(AnyCh, 0, Inf), Lit(FENCE)>>)
INLINE_RE == Cat(<<Lit(BT), Star(NotCls({BT, "\n"})), Lit(BT)>>)

isBlockquoteLine(line) == startsWith(trimStart(line), ">")

stripFences(t) == removeAll(FENCE_RE, t, 0)
stripInline(t) == removeAll(INLINE_RE, t, 0)
stripBlockquotes(t) ==
  join(SelectSeq(split(t, "\n", 0), LAMBDA line : ~isBlockquoteLine(line)), "\n")

\* variant: the blockquote filter is left out
stripLowSignalRegions_keepQuotes(t) == stripInline(stripFences(t))

stripLowSignalRegions(t) == stripBlockquotes(stripInline(stripFences(t)))

-----------------------------------------------------------------------------
(* Context probes *)

WindowSize == 150

Quotes == {"\"", "'"}

EVIDENCE_MARKERS == <<
  \* /["'][^"']{3,}["']/
  Regex(Cat(<<Cls(Quotes), Rep(NotCls(Quotes), 3, Inf), Cls(Quotes)>>), FALSE),
  \* /\b(?:error|exit)\s*(?:code)?\s*\d+/i
  Regex(Cat(<<WordB, Alt(<<Lit("error"), Lit("exit")>>), Star(Space),
              Opt(Lit("code")), Star(Space), Plus(Digit)>>), TRUE),
  \* /\b[A-Z]\d{3,4}\b/
  Regex(Cat(<<WordB, Cls(UpperLetters), Rep(Digit, 3, 4), WordB>>), FALSE),
  \* /\b(?:returned|reported|showed|output|printed|logged|threw|raised|exited|failed)\b/i
  Regex(Cat(<<WordB, Alt(<<Lit("returned"), Lit("reported"), Lit("showed"), Lit("output"),
                           Lit("printed"), Lit("logged"), Lit("threw"), Lit("raised"),
                           Lit("exited"), Lit("failed")>>), WordB>>), TRUE),
  \* /\b(?:stdout|stderr|traceback|exception|stack\s*trace)\b/i
  Regex(Cat(<<WordB, Alt(<<Lit("stdout"), Lit("stderr"), Lit("traceback"), Lit("exception"),
                           Cat(<<Lit("stack"), Star(Space), Lit("trace")>>)>>), WordB>>), TRUE),
  \* /[\w/]+\.\w{1,6}:\d+/
  Regex(Cat(<<Plus(Cls(WordChars \cup {"/"})), Lit("."), Rep(Word, 1, 6), Lit(":"),
              Plus(Digit)>>), FALSE)
>>

\* variant: the literal carries the g flag
BACKTICK_RE_global ==
  [ast |-> Cat(<<Lit(BT), Plus(NotCls({BT, "\n"})), Lit(BT)>>), icase |-> FALSE,
   global |-> TRUE]

\* /~[^~\n]+~/
BACKTICK_RE == Regex(Cat(<<Lit(BT), Plus(NotCls({BT, "\n"})), Lit(BT)>>), FALSE)

\* the lastIndex of the six markers and of BACKTICK_RE once the module is loaded
BacktickSlot == Len(EVIDENCE_MARKERS) + 1
FreshRegexes == [k \in 1..BacktickSlot |-> 0]

\* re.test(s) with re.lastIndex = li: whether it matched, and lastIndex after
\* it.  Without the g flag the search starts at 0 and lastIndex is left alone.
testResult(m) ==
  [found |-> m.index # -1, lastIndex |-> IF m.index = -1 THEN 0 ELSE m.end]

regexTest(R, s, li) ==
  IF ~R.global THEN [found |-> testRe(R, s), lastIndex |-> li]
  ELSE testResult(IF li > Len(s) THEN NoMatch ELSE execFrom(R.ast, subject(R, s), li))

hasEvidenceNearby(t, idx, rawText) ==
  LET start  == MathMax(0, idx - WindowSize)
      end    == MathMin(Len(t), idx + WindowSize)
      window == slice(t, start, end)
      rawStart  == MathMax(0, idx - WindowSize)
      rawEnd    == MathMin(Len(rawText), idx + WindowSize)
      rawWindow == slice(rawText, rawStart, rawEnd)
  IN  \/ \E k \in 1..Len(EVIDENCE_MARKERS) : testRe(EVIDENCE_MARKERS[k], window)
      \/ (rawText # "" /\ testRe(BACKTICK_RE, rawWindow))

\* hasEvidenceNearby in a module whose regular expressions have the lastIndex
\* values li: the answer and the lastIndex values after the call
RECURSIVE someMarker(_, _, _)
RECURSIVE markerStep(_, _, _, _)
markerStep(window, li, k, r) ==
  IF r.found THEN [found |-> TRUE, lastIndex |-> [li EXCEPT ![k] = r.lastIndex]]
  ELSE someMarker(window, [li EXCEPT ![k] = r.lastIndex], k + 1)

\* EVIDENCE_MARKERS.some((re) => re.test(window)), from marker k on
someMarker(window, li, k) ==
  IF k > Len(EVIDENCE_MARKERS) THEN [found |-> FALSE, lastIndex |-> li]
  ELSE markerStep(window, li, k, regexTest(EVIDENCE_MARKERS[k], window, li[k]))

backtickResult(li, b) ==
  [found |-> b.found, lastIndex |-> [li EXCEPT ![BacktickSlot] = b.lastIndex]]

rawEvidence(rawWindow, rawText, a) ==
  IF a.found \/ rawText = "" THEN a
  ELSE backtickResult(a.lastIndex,
                      regexTest(BACKTICK_RE, rawWindow, a.lastIndex[BacktickSlot]))

hasEvidenceNearbyFrom(t, idx, rawText, li) ==
  LET start  == MathMax(0, idx - WindowSize)
      end    == MathMin(Len(t), idx + WindowSize)
      rawEnd == MathMin(Len(rawText), idx + WindowSize)
  IN  rawEvidence(slice(rawText, start, rawEnd), rawText,
                  someMarker(slice(t, start, end), li, 1))

isIndexWithinQuestion(t, idx) ==
  LET startBoundary == Max({lastIndexOf(t, "\n", idx), lastIndexOf(t, ".", idx),
                            lastIndexOf(t, "!", idx), lastIndexOf(t, "?", idx)})
      start == IF startBoundary = -1 THEN 0 ELSE startBoundary + 1
      candidates == {indexOf(t, "\n", idx), indexOf(t, ".", idx),
                     indexOf(t, "!", idx), indexOf(t, "?", idx)} \ {-1}
      end == IF candidates # {} THEN Min(candidates) + 1 ELSE Len(t)
      segment == slice(t, start, end)
  IN  includes(segment, "?")

\* parseFloat(numStr) === 10 for numStr of the shape \d+(\.\d+)?\s* : the whole
\* part is 10 up to leading zeros and every decimal is 0.
parseFloatIsTen(numStr) ==
  LET dot   == indexOf(numStr, ".", 0)
      whole == IF dot = -1 THEN trim(numStr) ELSE slice(numStr, 0, dot)
      frac  == IF dot = -1 THEN "" ELSE trim(slice(numStr, dot + 1, Len(numStr)))
      n     == Len(whole)
  IN  /\ n >= 2
      /\ slice(whole, n - 2, n) = "10"
      /\ \A i \in 0..(n - 3) : charAt(whole, i) = "0"
      /\ \A i \in 0..(Len(frac) - 1) : charAt(frac, i) = "0"

\* /^\s+(?:requirements?|items?|...|rules?)\b/i
COUNT_NOUN_RE ==
  Regex(Cat(<<TextStart, Plus(Space),
              Alt(<<Lit("requirement"), Lit("item"), Lit("test"), Lit("file"), Lit("check"),
                    Lit("task"), Lit("step"), Lit("issue"), Lit("point"), Lit("module"),
                    Lit("case"), Lit("feature"), Lit("commit"), Lit("line"), Lit("rule")>>),
              Opt(Lit("s")), WordB>>), TRUE)

CountNounWindow == 35

isQualityScore(t, matchStr, matchIndex) ==
  LET numStr == split(matchStr, "/", 0)[1]
      after  == slice(t, matchIndex + Len(matchStr),
                         matchIndex + Len(matchStr) + CountNounWindow)
  IN  IF parseFloatIsTen(numStr) THEN FALSE
      ELSE IF includes(numStr, ".") THEN TRUE
      ELSE IF testRe(COUNT_NOUN_RE, after) THEN FALSE
      ELSE TRUE

EnumerationWindow == 200
MinListItems == 2

\* /^\s*(?:\d+[.)]\s|\*\s|-\s)/m  (and the same with the g flag)
listItemRe ==
  Regex(Cat(<<LineStart, Star(Space),
              Alt(<<Cat(<<Plus(Digit), Cls({".", ")"}), Space>>),
                    Cat(<<Lit("*"), Space>>),
                    Cat(<<Lit("-"), Space>>)>>)>>), FALSE)

\* variant: one list item is enough
hasEnumerationNearby_oneItem(t, idx) ==
  LET start     == MathMax(0, idx - EnumerationWindow)
      preceding == slice(t, start, idx)
  IN  testRe(listItemRe, preceding)

hasEnumerationNearby(t, idx) ==
  LET start     == MathMax(0, idx - EnumerationWindow)
      preceding == slice(t, start, idx)
  IN  /\ testRe(listItemRe, preceding)
      /\ countAll(listItemRe.ast, preceding, 0) >= MinListItems

-----------------------------------------------------------------------------
(* findTriggerMatches *)

Match(kind, evidence) == [kind |-> kind, evidence |-> evidence]

\* re.test / s.match(re) on a text whose lower-case form ls is already at hand
testIn(R, s, ls) == test(R.ast, IF R.icase THEN ls ELSE s)
execIn(R, s, ls) == exec(R.ast, IF R.icase THEN ls ELSE s)

Sp1 == Plus(Space)      \* \s+
Sp0 == Star(Space)      \* \s*
Word1 == Plus(Word)     \* \w+

speculationPhrases == <<
  "i think", "i believe", "probably", "likely", "it seems", "seems like",
  "i assume", "assume", "maybe", "might be", "could be", "presumably" >>

\* variant: the question probe is not consulted
speculationMatches_noProbe(haystack, lower) ==
  LET flagged == SelectSeq(speculationPhrases, LAMBDA phrase : indexOf(lower, phrase, 0) # -1)
  IN  [k \in 1..Len(flagged) |-> Match("speculation_language", flagged[k])]

\* 1) the loop over speculationPhrases
speculationMatches(haystack, lower) ==
  LET flagged == SelectSeq(speculationPhrases,
                   LAMBDA phrase :
                     LET idx == indexOf(lower, phrase, 0)
                     IN  idx # -1 /\ ~isIndexWithinQuestion(haystack, idx))
  IN  [k \in 1..Len(flagged) |-> Match("speculation_language", flagged[k])]

WordDash == Cls(WordChars \cup {"-"})     \* [\w-]

\* /\bshould\s+be\s+(?:~[^~]+~|["'][^"']+["']|\d[\d.]*\b|(?:true|...|void)\b
\*    |(?:a|an|the)\s+\w[\w-]*|[\w][\w-]{1,})/i
PRESCRIPTIVE_SHOULD ==
  Regex(Cat(<<WordB, Lit("should"), Sp1, Lit("be"), Sp1,
              Alt(<<Cat(<<Lit(BT), Plus(NotCls({BT})), Lit(BT)>>),
                    Cat(<<Cls(Quotes), Plus(NotCls(Quotes)), Cls(Quotes)>>),
                    Cat(<<Digit, Star(Cls(DigitChars \cup {"."})), WordB>>),
                    Cat(<<Alt(<<Lit("true"), Lit("false"), Lit("null"), Lit("undefined"),
                                Lit("none"), Lit("int"), Lit("str"), Lit("float"),
                                Lit("string"), Lit("boolean"), Lit("void")>>), WordB>>),
                    Cat(<<Alt(<<Lit("a"), Lit("an"), Lit("the")>>), Sp1, Word, Star(WordDash)>>),
                    Cat(<<Word, Rep(WordDash, 1, Inf)>>)>>)>>), TRUE)

\* /\b(?:H[0aA1]|hypothesis|null hypothesis|prediction)\b[^.]*\bshould\b/i
\* (the subscript digits of the source class are outside the model's alphabet)
HYPOTHESIS_SHOULD ==
  Regex(Cat(<<WordB,
              Alt(<<Cat(<<Lit("h"), Cls({"0", "a", "1"})>>), Lit("hypothesis"),
                    Lit("null hypothesis"), Lit("prediction")>>),
              WordB, Star(NotCls({"."})), WordB, Lit("should"), WordB>>), TRUE)

\* /\byou\s+should\s+(?:set|configure|change|update|use|add|remove|ensure|verify|check)\b/i
INSTRUCTIONAL_SHOULD ==
  Regex(Cat(<<WordB, Lit("you"), Sp1, Lit("should"), Sp1,
              Alt(<<Lit("set"), Lit("configure"), Lit("change"), Lit("update"), Lit("use"),
                    Lit("add"), Lit("remove"), Lit("ensure"), Lit("verify"), Lit("check")>>),
              WordB>>), TRUE)

\* /\b(?:it|this|that|everything|things?)\s+should\s+be\b/i
EPISTEMIC_SUBJECT_SHOULD ==
  Regex(Cat(<<WordB,
              Alt(<<Lit("it"), Lit("this"), Lit("that"), Lit("everything"),
                    Cat(<<Lit("thing"), Opt(Lit("s"))>>)>>),
              Sp1, Lit("should"), Sp1, Lit("be"), WordB>>), TRUE)

\* variant: hypothesis framing is looked at before the epistemic subject
shouldMatches_hypothesisFirst(haystack, lower) ==
  IF ~(includes(lower, "should be") \/ includes(lower, "should")) THEN <<>>
  ELSE IF testIn(HYPOTHESIS_SHOULD, haystack, lower) THEN <<>>
  ELSE IF testIn(EPISTEMIC_SUBJECT_SHOULD, haystack, lower)
         THEN <<Match("speculation_language", "should be (epistemic)")>>
  ELSE IF testIn(INSTRUCTIONAL_SHOULD, haystack, lower) THEN <<>>
  ELSE IF testIn(PRESCRIPTIVE_SHOULD, haystack, lower) THEN <<>>
  ELSE IF includes(lower, "should be")
         THEN LET idx == indexOf(lower, "should be", 0)
              IN  IF ~isIndexWithinQuestion(haystack, idx)
                    THEN <<Match("speculation_language", "should be")>>
                    ELSE <<>>
  ELSE <<>>

\* the classification of 'should be'
shouldMatches(haystack, lower) ==
  IF ~(includes(lower, "should be") \/ includes(lower, "should")) THEN <<>>
  ELSE IF testIn(EPISTEMIC_SUBJECT_SHOULD, haystack, lower)
         THEN <<Match("speculation_language", "should be (epistemic)")>>
  ELSE IF testIn(HYPOTHESIS_SHOULD, haystack, lower) THEN <<>>
  ELSE IF testIn(INSTRUCTIONAL_SHOULD, haystack, lower) THEN <<>>
  ELSE IF testIn(PRESCRIPTIVE_SHOULD, haystack, lower) THEN <<>>
  ELSE IF includes(lower, "should be")
         THEN LET idx == indexOf(lower, "should be", 0)
              IN  IF ~isIndexWithinQuestion(haystack, idx)
                    THEN <<Match("speculation_language", "should be")>>
                    ELSE <<>>
  ELSE <<>>

\* /\bsince\s+(?:last\s+)?(?:yesterday|today|then|\d{4}|\d{1,2}[/-]\d{1,2}
\*    |\d+\s+(?:minutes?|hours?|days?|weeks?|months?|years?)\s+ago
\*    |the\s+(?:beginning|start|end)|version\s+\d)/i
TEMPORAL_SINCE ==
  Regex(Cat(<<WordB, Lit("since"), Sp1, Opt(Cat(<<Lit("last"), Sp1>>)),
              Alt(<<Lit("yesterday"), Lit("today"), Lit("then"),
                    Rep(Digit, 4, 4),
                    Cat(<<Rep(Digit, 1, 2), Cls({"/", "-"}), Rep(Digit, 1, 2)>>),
                    Cat(<<Plus(Digit), Sp1,
                          Alt(<<Lit("minute"), Lit("hour"), Lit("day"), Lit("week"),
                                Lit("month"), Lit("year")>>), Opt(Lit("s")),
                          Sp1, Lit("ago")>>),
                    Cat(<<Lit("the"), Sp1, Alt(<<Lit("beginning"), Lit("start"), Lit("end")>>)>>),
                    Cat(<<Lit("version"), Sp1, Digit>>)>>)>>), TRUE)

SinceBefore == 50
SinceAfter == 100

\* /\b(?:probably|likely|possibly|perhaps|maybe|might\s+be|could\s+be)\s+because\b/i
HEDGED_BECAUSE ==
  Regex(Cat(<<WordB,
              Alt(<<Lit("probably"), Lit("likely"), Lit("possibly"), Lit("perhaps"),
                    Lit("maybe"), Cat(<<Lit("might"), Sp1, Lit("be")>>),
                    Cat(<<Lit("could"), Sp1, Lit("be")>>)>>),
              Sp1, Lit("because"), WordB>>), TRUE)

causalityPhrases == <<
  "caused by", "due to", "because", "as a result", "therefore", "this means",
  "consequently", "as a consequence", "hence", "thus", "it follows that",
  "this suggests that", "this indicates that", "this implies that", "which is why",
  "which means", "which explains", "the root cause", "stems from", "results from",
  "resulted in", "led to", "attributable to", "given that", "since" >>

\* variant: only the first occurrence of the phrase is looked at
scanCausality_firstOnly(phrase, haystack, lower, rawText, searchFrom) ==
  LET idx  == indexOf(lower, phrase, searchFrom)
      nearby == slice(haystack, MathMax(0, idx - SinceBefore),
                                MathMin(Len(haystack), idx + SinceAfter))
  IN  IF idx = -1 THEN <<>>
      ELSE IF isIndexWithinQuestion(haystack, idx) THEN <<>>
      ELSE IF phrase = "since" /\ testRe(TEMPORAL_SINCE, nearby) THEN <<>>
      ELSE IF phrase = "because" /\ testIn(HEDGED_BECAUSE, haystack, lower)
             THEN <<Match("causality_language", "because (hedged)")>>
      ELSE IF hasEvidenceNearby(haystack, idx, rawText) THEN <<>>
      ELSE <<Match("causality_language", phrase)>>

\* the while loop over the occurrences of one causality phrase
RECURSIVE scanCausality(_, _, _, _, _)
scanCausality(phrase, haystack, lower, rawText, searchFrom) ==
  LET idx  == indexOf(lower, phrase, searchFrom)
      next == idx + Len(phrase)
      nearby == slice(haystack, MathMax(0, idx - SinceBefore),
                                MathMin(Len(haystack), idx + SinceAfter))
  IN  IF idx = -1 THEN <<>>
      ELSE IF isIndexWithinQuestion(haystack, idx)
             THEN scanCausality(phrase, haystack, lower, rawText, next)
      ELSE IF phrase = "since" /\ testRe(TEMPORAL_SINCE, nearby)
             THEN scanCausality(phrase, haystack, lower, rawText, next)
      ELSE IF phrase = "because"
             THEN IF testIn(HEDGED_BECAUSE, haystack, lower)
                    THEN <<Match("causality_language", "because (hedged)")>>
                  ELSE IF hasEvidenceNearby(haystack, idx, rawText)
                    THEN scanCausality(phrase, haystack, lower, rawText, next)
                  ELSE <<Match("causality_language", phrase)>>
                         \o scanCausality(phrase, haystack, lower, rawText, next)
      ELSE IF hasEvidenceNearby(haystack, idx, rawText)
             THEN scanCausality(phrase, haystack, lower, rawText, next)
      ELSE <<Match("causality_language", phrase)>>

\* results of op(list[k]) concatenated for k = 1..Len(list)
RECURSIVE concatAll(_)
concatAll(seqs) == IF seqs = <<>> THEN <<>> ELSE Head(seqs) \o concatAll(Tail(seqs))

\* 2) the loop over causalityPhrases
causalityPhraseMatches(haystack, lower, rawText) ==
  concatAll([k \in 1..Len(causalityPhrases) |->
               scanCausality(causalityPhrases[k], haystack, lower, rawText, 0)])

\* /\.\s+This\s+(?:made|caused|meant|led\s+to|resulted\s+in|explains?\s+why|is\s+(?:why|because))\b/i
\* /\.\s+That(?:'s|\s+is)\s+(?:why|because|the\s+reason)\b/i
IMPLICIT_CAUSALITY == <<
  Regex(Cat(<<Lit("."), Sp1, Lit("this"), Sp1,
              Alt(<<Lit("made"), Lit("caused"), Lit("meant"),
                    Cat(<<Lit("led"), Sp1, Lit("to")>>),
                    Cat(<<Lit("resulted"), Sp1, Lit("in")>>),
                    Cat(<<Lit("explain"), Opt(Lit("s")), Sp1, Lit("why")>>),
                    Cat(<<Lit("is"), Sp1, Alt(<<Lit("why"), Lit("because")>>)>>)>>),
              WordB>>), TRUE),
  Regex(Cat(<<Lit("."), Sp1, Lit("that"),
              Alt(<<Lit("'s"), Cat(<<Sp1, Lit("is")>>)>>), Sp1,
              Alt(<<Lit("why"), Lit("because"), Cat(<<Lit("the"), Sp1, Lit("reason")>>)>>),
              WordB>>), TRUE) >>

\* /\bthe\s+(?:likely|probable|possible|main|primary|underlying)\s+(?:cause|reason|explanation)\b/i
\* /\bthe\s+(?:cause|reason|explanation|root\s+cause)\s+(?:of|for|behind)\s+(?:this|that|the)\b/i
NOMINALIZED_CAUSALITY == <<
  Regex(Cat(<<WordB, Lit("the"), Sp1,
              Alt(<<Lit("likely"), Lit("probable"), Lit("possible"), Lit("main"),
                    Lit("primary"), Lit("underlying")>>), Sp1,
              Alt(<<Lit("cause"), Lit("reason"), Lit("explanation")>>), WordB>>), TRUE),
  Regex(Cat(<<WordB, Lit("the"), Sp1,
              Alt(<<Lit("cause"), Lit("reason"), Lit("explanation"),
                    Cat(<<Lit("root"), Sp1, Lit("cause")>>)>>), Sp1,
              Alt(<<Lit("of"), Lit("for"), Lit("behind")>>), Sp1,
              Alt(<<Lit("this"), Lit("that"), Lit("the")>>), WordB>>), TRUE) >>

\* /\bwas\s+(?:caused|triggered|produced)\s+by\b/i
\* /\bresulted\s+(?:from|in)\b/i
\* /\bcan\s+be\s+traced\s+(?:back\s+)?to\b/i
PASSIVE_CAUSALITY == <<
  Regex(Cat(<<WordB, Lit("was"), Sp1,
              Alt(<<Lit("caused"), Lit("triggered"), Lit("produced")>>), Sp1,
              Lit("by"), WordB>>), TRUE),
  Regex(Cat(<<WordB, Lit("resulted"), Sp1, Alt(<<Lit("from"), Lit("in")>>), WordB>>), TRUE),
  Regex(Cat(<<WordB, Lit("can"), Sp1, Lit("be"), Sp1, Lit("traced"), Sp1,
              Opt(Cat(<<Lit("back"), Sp1>>)), Lit("to"), WordB>>), TRUE) >>

structuralCausality == IMPLICIT_CAUSALITY \o NOMINALIZED_CAUSALITY \o PASSIVE_CAUSALITY

\* one turn of the loop over the structural causality patterns
causalityRegexMatch(R, haystack, lower, rawText) ==
  LET m == execIn(R, haystack, lower)
  IN  IF m.index = -1 THEN <<>>
      ELSE IF isIndexWithinQuestion(haystack, m.index) THEN <<>>
      ELSE IF hasEvidenceNearby(haystack, m.index, rawText) THEN <<>>
      ELSE <<Match("causality_language", trim(matched(haystack, m)))>>

causalityRegexMatches(haystack, lower, rawText) ==
  concatAll([k \in 1..Len(structuralCausality) |->
               causalityRegexMatch(structuralCausality[k], haystack, lower, rawText)])

\* the two causality loops in a module whose regular expressions have the
\* lastIndex values li: the matches pushed and the lastIndex values afterwards
Pushed(ms, li) == [ms |-> ms, lastIndex |-> li]

before(ms, r) == Pushed(ms \o r.ms, r.lastIndex)

RECURSIVE scanCausalityFrom(_, _, _, _, _, _)
RECURSIVE afterProbe(_, _, _, _, _, _)
afterProbe(phrase, haystack, lower, rawText, next, p) ==
  IF p.found THEN scanCausalityFrom(phrase, haystack, lower, rawText, next, p.lastIndex)
  ELSE IF phrase = "because"
    THEN before(<<Match("causality_language", phrase)>>,
                scanCausalityFrom(phrase, haystack, lower, rawText, next, p.lastIndex))
  ELSE Pushed(<<Match("causality_language", phrase)>>, p.lastIndex)

scanCausalityFrom(phrase, haystack, lower, rawText, searchFrom, li) ==
  LET idx  == indexOf(lower, phrase, searchFrom)
      next == idx + Len(phrase)
      nearby == slice(haystack, MathMax(0, idx - SinceBefore),
                                MathMin(Len(haystack), idx + SinceAfter))
  IN  IF idx = -1 THEN Pushed(<<>>, li)
      ELSE IF isIndexWithinQuestion(haystack, idx)
             THEN scanCausalityFrom(phrase, haystack, lower, rawText, next, li)
      ELSE IF phrase = "since" /\ testRe(TEMPORAL_SINCE, nearby)
             THEN scanCausalityFrom(phrase, haystack, lower, rawText, next, li)
      ELSE IF phrase = "because" /\ testIn(HEDGED_BECAUSE, haystack, lower)
             THEN Pushed(<<Match("causality_language", "because (hedged)")>>, li)
      ELSE afterProbe(phrase, haystack, lower, rawText, next,
                      hasEvidenceNearbyFrom(haystack, idx, rawText, li))

RECURSIVE causalityPhraseMatchesFrom(_, _, _, _, _)
RECURSIVE thenPhrases(_, _, _, _, _)
thenPhrases(haystack, lower, rawText, k, a) ==
  before(a.ms, causalityPhraseMatchesFrom(haystack, lower, rawText, k + 1, a.lastIndex))

causalityPhraseMatchesFrom(haystack, lower, rawText, k, li) ==
  IF k > Len(causalityPhrases) THEN Pushed(<<>>, li)
  ELSE thenPhrases(haystack, lower, rawText, k,
                   scanCausalityFrom(causalityPhrases[k], haystack, lower, rawText, 0, li))

probedMatch(haystack, m, p) ==
  Pushed(IF p.found THEN <<>>
         ELSE <<Match("causality_language", trim(matched(haystack, m)))>>,
         p.lastIndex)

guardedMatch(haystack, rawText, m, li) ==
  IF m.index = -1 THEN Pushed(<<>>, li)
  ELSE IF isIndexWithinQuestion(haystack, m.index) THEN Pushed(<<>>, li)
  ELSE probedMatch(haystack, m, hasEvidenceNearbyFrom(haystack, m.index, rawText, li))

causalityRegexMatchFrom(R, haystack, lower, rawText, li) ==
  guardedMatch(haystack, rawText, execIn(R, haystack, lower), li)

RECURSIVE causalityRegexMatchesFrom(_, _, _, _, _)
RECURSIVE thenRegexes(_, _, _, _, _)
thenRegexes(haystack, lower, rawText, k, a) ==
  before(a.ms, causalityRegexMatchesFrom(haystack, lower, rawText, k + 1, a.lastIndex))

causalityRegexMatchesFrom(haystack, lower, rawText, k, li) ==
  IF k > Len(structuralCausality) THEN Pushed(<<>>, li)
  ELSE thenRegexes(haystack, lower, rawText, k,
                   causalityRegexMatchFrom(structuralCausality[k], haystack, lower,
                                           rawText, li))

\* /\b(\d+(?:\.\d+)?)\s*\/\s*10\b/i
nOverTenRe ==
  Regex(Cat(<<WordB, Plus(Digit), Opt(Cat(<<Lit("."), Plus(Digit)>>)),
              Sp0, Lit("/"), Sp0, Lit("10"), WordB>>), TRUE)

\* /\b\d{1,3}(?:\.\d+)?\s*%\b/i
percentRe ==
  Regex(Cat(<<WordB, Rep(Digit, 1, 3), Opt(Cat(<<Lit("."), Plus(Digit)>>)),
              Sp0, Lit("%"), WordB>>), TRUE)

\* 3) the N/10 check
nOverTenMatches(haystack, lower) ==
  LET m10 == execIn(nOverTenRe, haystack, lower)
  IN  IF m10.index # -1 /\ isQualityScore(haystack, matched(haystack, m10), m10.index)
        THEN <<Match("pseudo_quantification", matched(haystack, m10))>>
        ELSE <<>>

\* 3) the percentage check
percentMatches(haystack, lower) ==
  LET mp == execIn(percentRe, haystack, lower)
  IN  IF mp.index # -1
        THEN <<Match("pseudo_quantification", matched(haystack, mp))>>
        ELSE <<>>

completenessPhrases == <<
  "all files checked", "comprehensive analysis", "everything is fixed", "fully resolved",
  "complete solution",
  "all issues resolved", "all issues fixed", "all tests pass", "all tests passing",
  "no issues found", "no errors found", "no remaining issues", "no remaining errors",
  "nothing left to do", "task is complete", "task is done", "fully implemented",
  "fully complete", "fully functional", "completely resolved", "completely fixed",
  "completely done", "all done", "all complete", "all fixed", "all resolved",
  "entirely resolved", "entirely fixed", "nothing else to fix", "nothing else to do",
  "everything works", "everything is working" >>

\* variant: a phrase is searched in the text before its first '?' only
completenessPhraseMatches_beforeQuestion(lower) ==
  LET q == indexOf(lower, "?", 0)
      scope == IF q = -1 THEN lower ELSE slice(lower, 0, q)
      found == SelectSeq(completenessPhrases, LAMBDA phrase : indexOf(scope, phrase, 0) # -1)
  IN  [k \in 1..Len(found) |-> Match("completeness_claim", found[k])]

\* 4) the loop over completenessPhrases
completenessPhraseMatches(lower) ==
  LET found == SelectSeq(completenessPhrases, LAMBDA phrase : indexOf(lower, phrase, 0) # -1)
  IN  [k \in 1..Len(found) |-> Match("completeness_claim", found[k])]

completenessRegexes == <<
  \* /\ball\s+\w+\s+have\s+been\s+(?:fixed|resolved|...|completed)\b/i
  Regex(Cat(<<WordB, Lit("all"), Sp1, Word1, Sp1, Lit("have"), Sp1, Lit("been"), Sp1,
              Alt(<<Lit("fixed"), Lit("resolved"), Lit("updated"), Lit("added"),
                    Lit("removed"), Lit("checked"), Lit("verified"), Lit("addressed"),
                    Lit("handled"), Lit("processed"), Lit("completed")>>), WordB>>), TRUE),
  \* /\bno\s+remaining\s+\w+\b/i
  Regex(Cat(<<WordB, Lit("no"), Sp1, Lit("remaining"), Sp1, Word1, WordB>>), TRUE),
  \* /\b(?:fully|completely)\s+\w+(?:ed|d)\b/i
  Regex(Cat(<<WordB, Alt(<<Lit("fully"), Lit("completely")>>), Sp1, Word1,
              Alt(<<Lit("ed"), Lit("d")>>), WordB>>), TRUE),
  \* /\beverything\s+(?:is|has\s+been)\s+\w+\b/i
  Regex(Cat(<<WordB, Lit("everything"), Sp1,
              Alt(<<Lit("is"), Cat(<<Lit("has"), Sp1, Lit("been")>>)>>), Sp1,
              Word1, WordB>>), TRUE),
  \* /\ball\s+(?:of\s+)?(?:the\s+)?\w+\s+(?:are|is)\s+now\s+\w+\b/i
  Regex(Cat(<<WordB, Lit("all"), Sp1, Opt(Cat(<<Lit("of"), Sp1>>)),
              Opt(Cat(<<Lit("the"), Sp1>>)), Word1, Sp1,
              Alt(<<Lit("are"), Lit("is")>>), Sp1, Lit("now"), Sp1, Word1, WordB>>), TRUE) >>

\* one turn of the loop over completenessRegexes
completenessRegexMatch(R, haystack, lower) ==
  LET m == execIn(R, haystack, lower)
  IN  IF m.index = -1 THEN <<>>
      ELSE IF isIndexWithinQuestion(haystack, m.index) THEN <<>>
      ELSE IF hasEnumerationNearby(haystack, m.index) THEN <<>>
      ELSE <<Match("completeness_claim", trim(matched(haystack, m)))>>

completenessRegexMatches(haystack, lower) ==
  concatAll([k \in 1..Len(completenessRegexes) |->
               completenessRegexMatch(completenessRegexes[k], haystack, lower)])

\* the matchers of findTriggerMatches, in the order of the code
triggerMatches(haystack, lower, rawText) ==
  speculationMatches(haystack, lower)
    \o shouldMatches(haystack, lower)
    \o causalityPhraseMatches(haystack, lower, rawText)
    \o causalityRegexMatches(haystack, lower, rawText)
    \o nOverTenMatches(haystack, lower)
    \o percentMatches(haystack, lower)
    \o completenessPhraseMatches(lower)
    \o completenessRegexMatches(haystack, lower)

\* const lower = haystack.toLowerCase()
triggersOfHaystack(haystack, rawText) ==
  triggerMatches(haystack, toLowerCase(haystack), rawText)

\* const haystack = stripLowSignalRegions(rawText)
triggersOfRawText(rawText) ==
  triggersOfHaystack(stripLowSignalRegions(rawText), rawText)

findTriggerMatches(t) == triggersOfRawText(normalizeForScan(t))

\* findTriggerMatches(t) in a module whose regular expressions have the
\* lastIndex values li: the list returned and the lastIndex values afterwards
matchList(haystack, lower, phraseMs, b) ==
  Pushed(speculationMatches(haystack, lower)
           \o shouldMatches(haystack, lower)
           \o phraseMs
           \o b.ms
           \o nOverTenMatches(haystack, lower)
           \o percentMatches(haystack, lower)
           \o completenessPhraseMatches(lower)
           \o completenessRegexMatches(haystack, lower),
         b.lastIndex)

afterPhrases(haystack, lower, rawText, a) ==
  matchList(haystack, lower, a.ms,
            causalityRegexMatchesFrom(haystack, lower, rawText, 1, a.lastIndex))

scanStripped(haystack, lower, rawText, li) ==
  afterPhrases(haystack, lower, rawText,
               causalityPhraseMatchesFrom(haystack, lower, rawText, 1, li))

scanRaw(rawText, haystack, li) == scanStripped(haystack, toLowerCase(haystack), rawText, li)

findTriggerMatchesFrom(t, li) ==
  scanRaw(normalizeForScan(t), stripLowSignalRegions(normalizeForScan(t)), li)

-----------------------------------------------------------------------------
(* Sentence scoring *)

TriggerKinds ==
  {"speculation_language", "causality_language", "pseudo_quantification",
   "completeness_claim", "fabricated_source"}

\* the loop of scoreSentence over ms[k..], on the scores so far
RECURSIVE markKinds(_, _, _)
markKinds(sc, ms, k) ==
  IF k > Len(ms) THEN sc
  ELSE markKinds(IF ms[k].kind \in DOMAIN sc
                   THEN [sc EXCEPT ![ms[k].kind] = 1]
                   ELSE sc,
                 ms, k + 1)

\* variant: only the first match is looked at
scoreSentence_firstOnly(sentence) ==
  LET ms == findTriggerMatches(sentence)
  IN  markKinds([kind \in TriggerKinds |-> 0], SubSeq(ms, 1, MathMin(1, Len(ms))), 1)

scoreSentence(sentence) ==
  LET ms == findTriggerMatches(sentence)
  IN  markKinds([kind \in TriggerKinds |-> 0], ms, 1)

-----------------------------------------------------------------------------
(* JavaScript values of the scoring functions *)

\* A weight is a number in hundredths (0.25 is Num(25)), NaN, Infinity, or a
\* non-numeric string.  An aggregate score is a number in units of 10^-10,
\* written h * 10^5 + l with 0 <= l < 10^5 (0.3 is Dec(30000, 0)), or NaN or
\* Infinity.
Num(c)    == [t |-> "num", v |-> c]
NaN       == [t |-> "nan", v |-> 0]
Infinity  == [t |-> "inf", v |-> 0]
NonNumber == [t |-> "str", v |-> 0]

Dec(h, l) == [t |-> "num", h |-> h, l |-> l]
DecNaN    == [t |-> "nan", h |-> 0, l |-> 0]
DecInf    == [t |-> "inf", h |-> 0, l |-> 0]

Half == 100000

\* weight * score, score being 0 or 1
jsMul(w, sc) ==
  CASE w.t = "num" -> Num(w.v * sc)
    [] w.t = "inf" -> IF sc = 0 THEN NaN ELSE Infinity
    [] OTHER       -> NaN

\* a += b; a string operand makes the sum a string
jsAdd(a, b) ==
  CASE a.t = "str" \/ b.t = "str" -> NonNumber
    [] a.t = "nan" \/ b.t = "nan" -> NaN
    [] a.t = "inf" \/ b.t = "inf" -> Infinity
    [] OTHER                      -> Num(a.v + b.v)

\* Math.round((total / weightSum) * 1e10) / 1e10 for finite operands,
\* weightSum # 0: floor((2 * total * 10^10 + weightSum) / (2 * weightSum)),
\* divided in two steps of five digits
roundedQuotient(total, weightSum) ==
  LET T  == IF weightSum < 0 THEN -total ELSE total
      W  == IF weightSum < 0 THEN -weightSum ELSE weightSum
      A  == 2 * T * Half
      q1 == A \div (2 * W)
      r1 == A % (2 * W)
      B  == r1 * Half + W
  IN  Dec(q1, B \div (2 * W))

\* total / weightSum, rounded, in JavaScript arithmetic
jsDivRound(total, weightSum) ==
  CASE total.t = "num" /\ weightSum.t = "num" -> roundedQuotient(total.v, weightSum.v)
    [] total.t = "inf" /\ weightSum.t = "num" -> DecInf
    [] total.t = "num" /\ weightSum.t = "inf" -> Dec(0, 0)
    [] OTHER                                  -> DecNaN

\* a < b and a <= b on scores; false when an operand is NaN
decLess(a, b) ==
  CASE a.t = "nan" \/ b.t = "nan" -> FALSE
    [] a.t = "inf"                -> FALSE
    [] b.t = "inf"                -> TRUE
    [] OTHER                      -> a.h < b.h \/ (a.h = b.h /\ a.l < b.l)

decLessEq(a, b) ==
  CASE a.t = "nan" \/ b.t = "nan" -> FALSE
    [] OTHER                      -> a = b \/ decLess(a, b)

\* an argument that was not passed, and one that was
Undefined == [given |-> FALSE, map |-> <<>>]
Given(m)  == [given |-> TRUE, map |-> m]

-----------------------------------------------------------------------------
(* Aggregation and labels *)

\* variant: the weights of speculation and causality change places
DEFAULT_WEIGHTS_swapped ==
  [kind \in TriggerKinds |->
     CASE kind = "speculation_language"  -> Num(30)
       [] kind = "causality_language"    -> Num(25)
       [] kind = "pseudo_quantification" -> Num(15)
       [] kind = "completeness_claim"    -> Num(20)
       [] kind = "fabricated_source"     -> Num(10)]

DEFAULT_WEIGHTS ==
  [kind \in TriggerKinds |->
     CASE kind = "speculation_language"  -> Num(25)
       [] kind = "causality_language"    -> Num(30)
       [] kind = "pseudo_quantification" -> Num(15)
       [] kind = "completeness_claim"    -> Num(20)
       [] kind = "fabricated_source"     -> Num(10)]

\* scores[category] || 0
scoreOf(sc, category) == IF category \in DOMAIN sc THEN sc[category] ELSE 0

\* the loop of aggregateWeightedScore over the entries todo of w:
\* <<total, weightSum>> after them, from acc
RECURSIVE sumEntries(_, _, _, _)
sumEntries(w, sc, todo, acc) ==
  IF todo = {} THEN acc
  ELSE LET category == CHOOSE c \in todo : TRUE
       IN  sumEntries(w, sc, todo \ {category},
                      <<jsAdd(acc[1], jsMul(w[category], scoreOf(sc, category))),
                        jsAdd(acc[2], w[category])>>)

\* variant: the sum of the weights counts the matched categories only
aggregateWeightedScore_matchedOnly(sc, wts) ==
  LET w    == IF wts.given THEN wts.map ELSE DEFAULT_WEIGHTS
      hit  == {c \in DOMAIN w : scoreOf(sc, c) = 1}
      sums == sumEntries(w, sc, hit, <<Num(0), Num(0)>>)
  IN  IF sums[2] = Num(0) THEN Dec(0, 0)
      ELSE jsDivRound(sums[1], sums[2])

aggregateWeightedScore(sc, wts) ==
  LET w    == IF wts.given THEN wts.map ELSE DEFAULT_WEIGHTS
      sums == sumEntries(w, sc, DOMAIN w, <<Num(0), Num(0)>>)
  IN  IF sums[2] = Num(0) THEN Dec(0, 0)
      ELSE jsDivRound(sums[1], sums[2])

\* variant: the upper threshold is exclusive
getLabelForScore_exclusive(score) ==
  IF decLess(score, Dec(30000, 0)) THEN "GROUNDED"
  ELSE IF decLess(score, Dec(60000, 0)) THEN "UNCERTAIN"
  ELSE "HALLUCINATED"

getLabelForScore(score) ==
  IF decLess(score, Dec(30000, 0)) THEN "GROUNDED"
  ELSE IF decLessEq(score, Dec(60000, 0)) THEN "UNCERTAIN"
  ELSE "HALLUCINATED"

\* text.split(re), re never matching the empty string: the pieces from `from` on
RECURSIVE splitRe(_, _, _)
splitRe(s, re, from) ==
  LET m == execFrom(re, s, from)
  IN  IF m.index = -1 THEN <<slice(s, from, Len(s))>>
      ELSE <<slice(s, from, m.index)>> \o splitRe(s, re, m.end)

\* /(?<=[.!?])\s+/
SENTENCE_BREAK == Cat(<<Behind({".", "!", "?"}), Plus(Space)>>)

\* variant: the pieces are not trimmed
splitIntoSentences_untrimmed(t) ==
  LET raw == splitRe(t, SENTENCE_BREAK, 0)
  IN  SelectSeq(raw, LAMBDA str : Len(str) > 0)

\* variant: only a full stop ends a sentence
splitIntoSentences_periodOnly(t) ==
  LET raw     == splitRe(t, Cat(<<Behind({"."}), Plus(Space)>>), 0)
      trimmed == [k \in 1..Len(raw) |-> trim(raw[k])]
  IN  SelectSeq(trimmed, LAMBDA str : Len(str) > 0)

\* variant: the empty pieces are kept
splitIntoSentences_unfiltered(t) ==
  LET raw == splitRe(t, SENTENCE_BREAK, 0)
  IN  [k \in 1..Len(raw) |-> trim(raw[k])]

splitIntoSentences(t) ==
  LET raw     == splitRe(t, SENTENCE_BREAK, 0)
      trimmed == [k \in 1..Len(raw) |-> trim(raw[k])]
  IN  SelectSeq(trimmed, LAMBDA str : Len(str) > 0)

\* { sentence, index, total, scores, aggregateScore, label }
resultObject(sentence, index, total, sc, aggregateScore) ==
  [sentence |-> sentence, index |-> index, total |-> total, scores |-> sc,
   aggregateScore |-> aggregateScore, label |-> getLabelForScore(aggregateScore)]

\* the result of scoreText for a sentence with the scores sc
scoredResult(sentence, index, total, sc, wts) ==
  resultObject(sentence, index, total, sc, aggregateWeightedScore(sc, wts))

\* the result object of scoreText for the sentence at JavaScript index `index`
sentenceResult(sentence, index, total, wts) ==
  scoredResult(sentence, index, total, scoreSentence(sentence), wts)

\* sentences.map((sentence, index) => ...)
mapSentences(sents, indexBase, wts) ==
  [k \in 1..Len(sents) |-> sentenceResult(sents[k], k - 1 + indexBase, Len(sents), wts)]

\* variant: index counts from 1
scoreText_oneBased(t, wts) == mapSentences(splitIntoSentences(t), 1, wts)

scoreText(t, wts) == mapSentences(splitIntoSentences(t), 0, wts)

\* the config file of the working directory: whether it exists, whether
\* loading it throws, whether it exports an object as weights, and that object
ConfigFile(exists, throws, hasWeights, w) ==
  [exists |-> exists, throws |-> throws, hasWeights |-> hasWeights, weights |-> w]

NoConfigFile == ConfigFile(FALSE, FALSE, FALSE, <<>>)

\* { ...a, ...b }
spread(a, b) ==
  [k \in DOMAIN a \cup DOMAIN b |-> IF k \in DOMAIN b THEN b[k] ELSE a[k]]

loadWeights(config) ==
  IF config.exists /\ ~config.throws /\ config.hasWeights
    THEN spread(DEFAULT_WEIGHTS, config.weights)
    ELSE DEFAULT_WEIGHTS

-----------------------------------------------------------------------------
(* The Stop hook process *)

\* the counter file of a session that has none
NoFile == -1

\* a counter file that cannot be read or does not hold a JSON object
Unreadable == -2

\* loadLoopState(sessionId).data.blocks, read with Number(data.blocks || 0)
loadLoopState(file) == IF file \in {NoFile, Unreadable} THEN 0 ELSE file

BlockThreshold == 2
MaxSnippets == 6

\* [...new Set(matches.map((m) => m.kind))]: the kinds of ms[k..] not in seen
RECURSIVE uniqueKinds(_, _, _)
uniqueKinds(ms, k, seen) ==
  IF k > Len(ms) THEN <<>>
  ELSE IF ms[k].kind \in seen THEN uniqueKinds(ms, k + 1, seen)
  ELSE <<ms[k].kind>> \o uniqueKinds(ms, k + 1, seen \cup {ms[k].kind})

evidenceSnippets(ms) ==
  LET shown == SubSeq(ms, 1, MathMin(MaxSnippets, Len(ms)))
  IN  join([k \in 1..Len(shown) |->
              "- " \o shown[k].kind \o ": \"" \o shown[k].evidence \o "\""], "\n")

\* the reason text of a block decision
reasonWith(snippets, kinds) ==
  join(<<"Hallucination-detector STOP HOOK blocked this response.",
         "",
         "Detected trigger language in your last assistant message:",
         IF snippets = "" THEN "- (no snippets available)" ELSE snippets,
         "",
         "Rewrite the response to follow these rules:",
         "- Only state actions you actually took and what you actually observed.",
         "- If information is missing, say \"I don't know yet\" / \"I don't have that information\" / \"I can check using my tools\".",
         "- Do not assert causality unless you explicitly cite the observed evidence that supports it.",
         "- Remove speculative hedging (e.g., \"probably\", \"likely\", \"seems\"). Replace with verification steps or uncertainty statements.",
         "- If you need to reference or discuss a flagged phrase in your rewrite, wrap it in backticks (e.g., " \o BT \o "probably" \o BT \o ", " \o BT \o "because" \o BT \o ") so the hook does not re-trigger on the explanation.",
         "",
         "Kinds flagged: " \o join(kinds, ", ")>>, "\n")

reasonFor(ms) == reasonWith(evidenceSnippets(ms), uniqueKinds(ms, 1, {}))

\* what one run of main() leaves: the matches it computed, the counter file,
\* the objects written to stdout, the exit code
Outcome(ms, file, out, code) ==
  [matches |-> ms, blocks |-> file, stdout |-> out, exitCode |-> code]

\* variant: the loop guard lets one message through and blocks again
decide_guardOnce(ms, nextBlocks, threshold, stopHookActive) ==
  IF Len(ms) = 0
    THEN Outcome(ms, 0, <<>>, 0)
  ELSE IF nextBlocks = threshold + 1 /\ stopHookActive
    THEN Outcome(ms, nextBlocks, <<>>, 0)
  ELSE Outcome(ms, nextBlocks, <<[decision |-> "block", reason |-> reasonFor(ms)]>>, 0)

\* variant: the pass of the loop guard leaves the counter as it was read
decide_passUnsaved(ms, nextBlocks, threshold, stopHookActive) ==
  IF Len(ms) = 0
    THEN Outcome(ms, 0, <<>>, 0)
  ELSE IF nextBlocks > threshold /\ stopHookActive
    THEN Outcome(ms, nextBlocks - 1, <<>>, 0)
  ELSE Outcome(ms, nextBlocks, <<[decision |-> "block", reason |-> reasonFor(ms)]>>, 0)

\* main() from the call of findTriggerMatches on: ms are the matches,
\* nextBlocks the counter read from the file plus one
decide(ms, nextBlocks, threshold, stopHookActive) ==
  IF Len(ms) = 0
    THEN Outcome(ms, 0, <<>>, 0)
  ELSE IF nextBlocks > threshold /\ stopHookActive
    THEN Outcome(ms, nextBlocks, <<>>, 0)
  ELSE Outcome(ms, nextBlocks, <<[decision |-> "block", reason |-> reasonFor(ms)]>>, 0)

\* A transcript file is a sequence of lines; a line is blank, text that is
\* not JSON, or a JSON value.  A JSON value is an entry object with its type,
\* isSidechain, message and message.content, or a value that is no object.
\* A content is a string, an array of blocks, or something else; a block is
\* an object with its type, text and content, or a value that is no object.
Block(type, hasText, txt, hasContent, content) ==
  [obj |-> TRUE, type |-> type, hasText |-> hasText, text |-> txt,
   hasContent |-> hasContent, content |-> content]

NonObjectBlock ==
  [obj |-> FALSE, type |-> "", hasText |-> FALSE, text |-> "",
   hasContent |-> FALSE, content |-> ""]

StringContent(str)   == [kind |-> "string", str |-> str, blocks |-> <<>>]
ArrayContent(items)  == [kind |-> "array", str |-> "", blocks |-> items]
OtherContent         == [kind |-> "other", str |-> "", blocks |-> <<>>]

Line(line, obj, type, isSidechain, hasMessage, content) ==
  [line |-> line, obj |-> obj, type |-> type, isSidechain |-> isSidechain,
   hasMessage |-> hasMessage, content |-> content]

Entry(type, isSidechain, hasMessage, content) ==
  Line("json", TRUE, type, isSidechain, hasMessage, content)

NonObjectEntry == Line("json", FALSE, "", FALSE, FALSE, OtherContent)
BlankLine      == Line("blank", FALSE, "", FALSE, FALSE, OtherContent)
GarbageLine    == Line("garbage", FALSE, "", FALSE, FALSE, OtherContent)

\* the transcript file at transcript_path
TranscriptFile(exists, lines) == [exists |-> exists, lines |-> lines]
NoTranscript == TranscriptFile(FALSE, <<>>)

\* !transcriptText.trim(); safeReadFileText gives '' for a file it cannot read
isBlankFile(lines) == \A k \in 1..Len(lines) : lines[k].line = "blank"

parseJsonl(lines) == SelectSeq(lines, LAMBDA ln : ln.line = "json")

isSidechainEntry(entry) == entry.isSidechain

\* what one turn of the loop over the blocks pushes to parts
blockParts(block) ==
  IF ~block.obj THEN <<>>
  ELSE IF block.type = "tool_use" THEN <<>>
  ELSE IF block.hasText /\ trim(block.text) # "" THEN <<block.text>>
  ELSE IF block.hasContent /\ trim(block.content) # "" THEN <<block.content>>
  ELSE <<>>

extractTextFromMessageContent(content) ==
  IF content.kind = "string" THEN content.str
  ELSE IF content.kind # "array" THEN ""
  ELSE trim(join(concatAll([k \in 1..Len(content.blocks) |->
                              blockParts(content.blocks[k])]), "\n"))

\* variant: the first assistant text of the transcript instead of the last
getLastAssistantText_first(transcriptEntries) ==
  LET found == {k \in 1..Len(transcriptEntries) :
                  /\ transcriptEntries[k].obj
                  /\ ~isSidechainEntry(transcriptEntries[k])
                  /\ transcriptEntries[k].type = "assistant"
                  /\ transcriptEntries[k].hasMessage
                  /\ extractTextFromMessageContent(transcriptEntries[k].content) # ""}
  IN IF found = {} THEN ""
     ELSE extractTextFromMessageContent(
            transcriptEntries[CHOOSE k \in found : \A m \in found : k <= m].content)

\* the loop of getLastAssistantText from entry i down to the first
RECURSIVE scanEntries(_, _)
RECURSIVE textOrEarlier(_, _, _)
textOrEarlier(transcriptEntries, i, txt) ==
  IF txt # "" THEN txt ELSE scanEntries(transcriptEntries, i - 1)

scanEntries(transcriptEntries, i) ==
  IF i < 1 THEN ""
  ELSE IF ~transcriptEntries[i].obj THEN scanEntries(transcriptEntries, i - 1)
  ELSE IF isSidechainEntry(transcriptEntries[i])
    THEN scanEntries(transcriptEntries, i - 1)
  ELSE IF transcriptEntries[i].type # "assistant" \/ ~transcriptEntries[i].hasMessage
    THEN scanEntries(transcriptEntries, i - 1)
  ELSE textOrEarlier(transcriptEntries, i,
                     extractTextFromMessageContent(transcriptEntries[i].content))

getLastAssistantText(transcriptEntries) ==
  scanEntries(transcriptEntries, Len(transcriptEntries))

\* lastAssistantText of main(), '' standing for the exits before it is set
lastAssistantTextOf(file) ==
  IF ~file.exists \/ isBlankFile(file.lines) THEN ""
  ELSE getLastAssistantText(parseJsonl(file.lines))

\* variant: the guard lets a third block through
main_lateGuard(input, last, file) ==
  IF input.json = "null"
    THEN Outcome(<<>>, file, <<>>, 1)
  ELSE IF input.json = "invalid" \/ ~input.hasTranscript \/ last = ""
    THEN Outcome(<<>>, file, <<>>, 0)
  ELSE decide(findTriggerMatches(last), loadLoopState(file) + 1, BlockThreshold + 1,
              input.stop_hook_active)

\* main() on the stdin `input`, the last assistant text `last` of the
\* transcript ("" when the path is missing, the file is absent or blank, or
\* no assistant message has text), and the counter file `file`
main(input, last, file) ==
  IF input.json = "null"
    THEN Outcome(<<>>, file, <<>>, 1)          \* input.transcript_path throws
  ELSE IF input.json = "invalid" \/ ~input.hasTranscript \/ last = ""
    THEN Outcome(<<>>, file, <<>>, 0)
  ELSE decide(findTriggerMatches(last), loadLoopState(file) + 1, BlockThreshold,
              input.stop_hook_active)

\* main() on the stdin `input`, the transcript file and the counter file
mainOn(input, file, counterFile) ==
  main([input EXCEPT !.hasTranscript = @ /\ file.exists], lastAssistantTextOf(file),
       counterFile)

-----------------------------------------------------------------------------
(* The state machine: a text is typed token by token, then audited *)

MaxTokStrip == 5
MaxTokQuestion == 3
MaxTokShould == 3
MaxTokBecause == 5
MaxTokScore == 3
MaxTokPercent == 3
MaxTokSpeculation == 3
MaxTokComplete == 4
MaxTokEnumeration == 3
MaxTokSentence == 3
MaxTokWeightSum == 4
MaxTokSentences == 4
MaxTokAlignment == 3
MaxTokFenced == 4
MaxTokSplit == 4
MaxTokEngine == 3
MaxTokRepeat == 3
MaxTokCausality == 3

\* 198 characters of plain narrative, no line break: with one list item after
\* it, an earlier item falls out of the 200-character window
Padding ==
  "lorem ipsum dolor sit amet consectetur adipiscing elit sed do eiusmod tempor "
    \o "incididunt ut labore et dolore magna aliqua ut enim ad minim veniam quis "
    \o "nostrud exercitation ullamco laboris nisi ut al "

\* the tokens a text is made of, per family of inputs
\* a fenced code block of more than 150 characters, on lines of its own
FencedBlock == FENCE \o "\n" \o Padding \o "\n" \o FENCE \o "\n"

Vocab ==
  [ strip |-> {"Probably", FENCE, BT, "\n", ">"},
    question |-> {"Maybe ", "should be ", "hence ", "was caused by ", "all done ",
                  "Everything is ok ", "?"},
    should |-> {"It ", "should be ", "you should use ", "hypothesis ", "true ", "x ", "?"},
    because |-> {"probably ", "because ", "error 1 ", "?", ". "},
    score |-> {"10/10 ", "8/10 ", "8.5/10 ", "tests ", "x "},
    percent |-> {"70", "%", " improvement", ".", "x"},
    speculation |-> {"Probably ", "fine", "?", ". ", "\n"},
    complete |-> {"1. a\n", "2. b\n", "All done", "?", "ok. "},
    enumeration |-> {"1. a\n" \o Padding, "- b\n", "2) c\n", "Everything is ok", "?"},
    sentence |-> {"Probably ", "because x ", "8/10 ", "all done ", "source: foo "},
    weightsum |-> {"Probably ", "because x ", "8/10 ", "all done "},
    sentences |-> {"One", "Probably", ". ", "? ", "!\n", " "},
    alignment |-> {FencedBlock, "It broke because ", BT \o "cfg" \o BT \o " ",
                   "x is unset. ", "\n"},
    fenced |-> {FENCE, "\n", "this is probably fine. ", "ok", "Done. "},
    split |-> {"No terminal punctuation here", " ", "\n", ".", "?", "x"},
    engine |-> {"Probably ", "it broke because x. ", "8/10 ", "All done? ", FENCE},
    repeat |-> {"It broke because ", BT \o "cfg" \o BT \o " ", "error 1 ", "hence x. ",
                "All done. "},
    causality |-> {"since ", "since yesterday ", "it resulted in y ", "error 1 ", "? ", Padding} ]

MaxTok ==
  [ strip |-> MaxTokStrip,
    question |-> MaxTokQuestion,
    should |-> MaxTokShould,
    because |-> MaxTokBecause,
    score |-> MaxTokScore,
    percent |-> MaxTokPercent,
    speculation |-> MaxTokSpeculation,
    complete |-> MaxTokComplete,
    enumeration |-> MaxTokEnumeration,
    sentence |-> MaxTokSentence,
    weightsum |-> MaxTokWeightSum,
    sentences |-> MaxTokSentences,
    alignment |-> MaxTokAlignment,
    fenced |-> MaxTokFenced,
    split |-> MaxTokSplit,
    engine |-> MaxTokEngine,
    repeat |-> MaxTokRepeat,
    causality |-> MaxTokCausality ]

\* the hook has not been invoked: nothing was read from stdin
NoStdin == [json |-> "none", hasTranscript |-> FALSE, stop_hook_active |-> FALSE]

\* nothing has been scored
IdleScoring ==
  /\ weights = Undefined
  /\ rc = NoConfigFile
  /\ aggregate = Dec(0, 0)
  /\ label = ""
  /\ sentences = <<>>
  /\ results = <<>>

\* the hook has not run in the session: no counter file, nothing written
IdleHook ==
  /\ blocks = NoFile
  /\ stdout = <<>>
  /\ exitCode = 0
  /\ streak = 0
  /\ cycle = TRUE

InitWith(v) ==
  /\ vocab = v
  /\ text = ""
  /\ ntok = 0
  /\ pc = "input"
  /\ matches = <<>>
  /\ scores = <<>>
  /\ lastIndex = FreshRegexes
  /\ stdin = NoStdin
  /\ transcript = NoTranscript
  /\ IdleScoring
  /\ IdleHook

\* no message is being typed
NoText(name) ==
  /\ vocab = name
  /\ text = ""
  /\ ntok = 0
  /\ pc = "input"
  /\ matches = <<>>
  /\ lastIndex = FreshRegexes
  /\ stdin = NoStdin
  /\ transcript = NoTranscript

\* the caller extends the message by one token
Type(tok) ==
  /\ pc = "input"
  /\ ntok < MaxTok[vocab]
  /\ text' = text \o tok
  /\ ntok' = ntok + 1
  /\ UNCHANGED <<vocab, pc, matches, scores, scoringVars, hookVars, lastIndex, stdin, transcript>>

\* findTriggerMatches(text) is called on the message
Detect ==
  /\ pc = "input"
  /\ matches' = findTriggerMatches(text)
  /\ pc' = "done"
  /\ UNCHANGED <<text, ntok, vocab, scores, scoringVars, hookVars, lastIndex, stdin, transcript>>

Next ==
  \/ \E tok \in Vocab[vocab] : Type(tok)
  \/ Detect

InitStrip == InitWith("strip")
SpecStrip == InitStrip /\ [][Next]_vars

InitQuestion == InitWith("question")
SpecQuestion == InitQuestion /\ [][Next]_vars

InitShould == InitWith("should")
SpecShould == InitShould /\ [][Next]_vars

InitBecause == InitWith("because")
SpecBecause == InitBecause /\ [][Next]_vars

InitScore == InitWith("score")
SpecScore == InitScore /\ [][Next]_vars

InitPercent == InitWith("percent")
SpecPercent == InitPercent /\ [][Next]_vars

InitSpeculation == InitWith("speculation")
SpecSpeculation == InitSpeculation /\ [][Next]_vars

InitComplete == InitWith("complete")
SpecComplete == InitComplete /\ [][Next]_vars

InitEnumeration == InitWith("enumeration")
SpecEnumeration == InitEnumeration /\ [][Next]_vars

InitAlignment == InitWith("alignment")
SpecAlignment == InitAlignment /\ [][Next]_vars

\* scoreSentence(text) is called on the text as one sentence
Score ==
  /\ pc = "input"
  /\ scores' = scoreSentence(text)
  /\ pc' = "scored"
  /\ UNCHANGED <<text, ntok, vocab, matches, scoringVars, hookVars, lastIndex, stdin, transcript>>

NextSentence ==
  \/ \E tok \in Vocab[vocab] : Type(tok)
  \/ Score

InitSentence == InitWith("sentence")
SpecSentence == InitSentence /\ [][NextSentence]_vars

\* scoreText(text, weights) is called on the message
ScoreText ==
  /\ pc = "input"
  /\ results' = scoreText(text, weights)
  /\ pc' = "scoredText"
  /\ UNCHANGED <<text, ntok, vocab, matches, scores, weights, rc, aggregate,
                 label, sentences, hookVars, lastIndex, stdin, transcript>>

NextText ==
  \/ \E tok \in Vocab[vocab] : Type(tok)
  \/ ScoreText

InitWeightSum == InitWith("weightsum")
SpecWeightSum == InitWeightSum /\ [][NextText]_vars

InitSentences == InitWith("sentences")
SpecSentences == InitSentences /\ [][NextText]_vars

\* what stdin can hold: text that is not JSON, the JSON value null, or an
\* object with or without a usable transcript_path and with stop_hook_active
StdinValues ==
  {[json |-> "invalid", hasTranscript |-> FALSE, stop_hook_active |-> FALSE],
   [json |-> "null", hasTranscript |-> FALSE, stop_hook_active |-> FALSE]}
    \cup {[json |-> "object", hasTranscript |-> t, stop_hook_active |-> a] :
            t, a \in BOOLEAN}

\* the last assistant text of the transcript; "" when there is none
LastMessages ==
  {"", "Probably fine.", "It failed because of x. All done.", "I ran the tests."}

MaxBlocks == 5

\* the process ends with the outcome o
Exit(o) ==
  /\ matches' = o.matches
  /\ blocks' = o.blocks
  /\ stdout' = o.stdout
  /\ exitCode' = o.exitCode
  /\ streak' = IF o.stdout # <<>> THEN streak + 1 ELSE 0

\* the hook runs once: main() up to process.exit
Stop(input, last) ==
  /\ pc \in {"input", "exited"}
  /\ loadLoopState(blocks) < MaxBlocks
  /\ Exit(main(input, last, blocks))
  /\ text' = last
  /\ cycle' = (cycle /\ (streak > 0 => input.stop_hook_active))
  /\ stdin' = input
  /\ pc' = "exited"
  /\ UNCHANGED <<ntok, vocab, scores, scoringVars, lastIndex, transcript>>

NextHook == \E input \in StdinValues, last \in LastMessages : Stop(input, last)

InitHook ==
  /\ NoText("hook")
  /\ scores = <<>>
  /\ IdleScoring
  /\ IdleHook

SpecHook == InitHook /\ [][NextHook]_vars

\* the transcript files the hook is run on: absent, empty, blank, without a
\* JSON line, without an assistant entry, with tool calls only, with a
\* sidechain answer only, and with a main-chain answer followed by other lines
HookTranscripts ==
  {NoTranscript,
   TranscriptFile(TRUE, <<>>),
   TranscriptFile(TRUE, <<BlankLine, BlankLine>>),
   TranscriptFile(TRUE, <<GarbageLine>>),
   TranscriptFile(TRUE, <<Entry("user", FALSE, TRUE, StringContent("Probably fine."))>>),
   TranscriptFile(TRUE,
     <<Entry("assistant", FALSE, TRUE,
             ArrayContent(<<Block("tool_use", TRUE, "Probably fine.", FALSE, "")>>))>>),
   TranscriptFile(TRUE,
     <<Entry("assistant", TRUE, TRUE,
             ArrayContent(<<Block("text", TRUE, "Probably fine.", FALSE, "")>>))>>),
   TranscriptFile(TRUE,
     <<Entry("assistant", FALSE, TRUE,
             ArrayContent(<<Block("text", TRUE, "Probably fine.", FALSE, "")>>)),
       Entry("user", FALSE, TRUE, StringContent("ok")), BlankLine>>),
   TranscriptFile(TRUE,
     <<Entry("assistant", FALSE, TRUE, StringContent("I ran the tests.")),
       GarbageLine>>)}

MaxCounted == 2

\* the hook runs once on a transcript file: main() up to process.exit
StopOn(input, file) ==
  /\ pc \in {"input", "exited"}
  /\ loadLoopState(blocks) < MaxCounted
  /\ Exit(mainOn(input, file, blocks))
  /\ text' = lastAssistantTextOf(file)
  /\ cycle' = (cycle /\ (streak > 0 => input.stop_hook_active))
  /\ stdin' = input
  /\ transcript' = file
  /\ pc' = "exited"
  /\ UNCHANGED <<ntok, vocab, scores, scoringVars, lastIndex>>

NextFailOpen == \E input \in StdinValues, file \in HookTranscripts : StopOn(input, file)

SpecFailOpen == InitHook /\ [][NextFailOpen]_vars

\* the entries getLastAssistantText is called on: assistant answers with text
\* blocks, tool calls, string content, blank text, no content and no message,
\* a sidechain answer, a user entry and a JSON value that is no object
EntryTemplates ==
  {Entry("assistant", FALSE, TRUE,
         ArrayContent(<<Block("tool_use", TRUE, "Probably.", FALSE, ""),
                        Block("text", TRUE, "It works.", FALSE, "")>>)),
   Entry("assistant", FALSE, TRUE, StringContent("All done.")),
   Entry("assistant", FALSE, TRUE,
         ArrayContent(<<Block("tool_use", TRUE, "Probably.", FALSE, "")>>)),
   Entry("assistant", TRUE, TRUE, StringContent("Side note.")),
   Entry("user", FALSE, TRUE, StringContent("Why?")),
   Entry("assistant", FALSE, FALSE, OtherContent),
   NonObjectEntry,
   Entry("assistant", FALSE, TRUE,
         ArrayContent(<<Block("text", TRUE, "  ", TRUE, " see log "), NonObjectBlock,
                        Block("text", TRUE, "ok", FALSE, "")>>)),
   Entry("assistant", FALSE, TRUE, OtherContent),
   Entry("assistant", FALSE, TRUE, StringContent(""))}

MaxEntries == 3

\* getLastAssistantText(entries) is called on the parsed transcript
Extract ==
  /\ pc = "input"
  /\ text' = getLastAssistantText(transcript.lines)
  /\ pc' = "extracted"
  /\ UNCHANGED <<ntok, vocab, matches, scores, scoringVars, hookVars, lastIndex,
                 stdin, transcript>>

NextExtract == Extract

InitExtract ==
  /\ vocab = "extract"
  /\ text = ""
  /\ ntok = 0
  /\ pc = "input"
  /\ matches = <<>>
  /\ scores = <<>>
  /\ lastIndex = FreshRegexes
  /\ stdin = NoStdin
  /\ \E n \in 0..MaxEntries :
       transcript \in {TranscriptFile(TRUE, es) : es \in [1..n -> EntryTemplates]}
  /\ IdleScoring
  /\ IdleHook

SpecExtract == InitExtract /\ [][NextExtract]_vars

\* between two invocations the counter file is truncated or overwritten
Damage ==
  /\ pc = "exited"
  /\ blocks \notin {NoFile, Unreadable}
  /\ streak < MaxBlocks
  /\ blocks' = Unreadable
  /\ UNCHANGED <<text, ntok, vocab, pc, matches, scores, scoringVars, stdout,
                 exitCode, streak, cycle, lastIndex, stdin, transcript>>

NextCounter ==
  \/ NextHook
  \/ Damage

SpecCounter == InitHook /\ [][NextCounter]_vars

\* the keys and the values of the weight maps handed to the scoring functions
WeightKeys == {"speculation_language", "causality_language", "unknown_key"}
WeightValues == {Num(0), Num(50), Num(100), Num(900), Num(-100), NaN, Infinity}

WeightMaps ==
  UNION {[keys -> WeightValues] : keys \in SUBSET WeightKeys}

\* score vectors: two categories vary, the others are 0
ScoreVectors ==
  {[kind \in TriggerKinds |->
      CASE kind = "speculation_language" -> a
        [] kind = "causality_language"   -> b
        [] OTHER                         -> 0] : a, b \in {0, 1}}

\* the config files: none, one that fails to load, one without a weights
\* object, and one for every weight map, a non-numeric value included
ConfigMaps ==
  UNION {[keys -> WeightValues \cup {NonNumber}] : keys \in SUBSET WeightKeys}

Configs ==
  {NoConfigFile, ConfigFile(TRUE, TRUE, FALSE, <<>>), ConfigFile(TRUE, FALSE, FALSE, <<>>)}
    \cup {ConfigFile(TRUE, FALSE, TRUE, m) : m \in ConfigMaps}

\* loadWeights() is called in a working directory with the config file rc
LoadWeights ==
  /\ pc = "input"
  /\ weights' = Given(loadWeights(rc))
  /\ pc' = "loaded"
  /\ UNCHANGED <<text, ntok, vocab, matches, scores, rc, aggregate, label,
                 sentences, results, hookVars, lastIndex, stdin, transcript>>

NextLoadWeights == LoadWeights

InitLoadWeights ==
  /\ NoText("loadWeights")
  /\ scores = <<>>
  /\ weights = Undefined
  /\ rc \in Configs
  /\ aggregate = Dec(0, 0)
  /\ label = ""
  /\ sentences = <<>>
  /\ results = <<>>
  /\ IdleHook

SpecLoadWeights == InitLoadWeights /\ [][NextLoadWeights]_vars

\* aggregateWeightedScore(scores, weights) is called
Aggregate ==
  /\ pc = "input"
  /\ aggregate' = aggregateWeightedScore(scores, weights)
  /\ pc' = "aggregated"
  /\ UNCHANGED <<text, ntok, vocab, matches, scores, weights, rc, label,
                 sentences, results, hookVars, lastIndex, stdin, transcript>>

NextAggregate == Aggregate

InitAggregate ==
  /\ NoText("aggregate")
  /\ scores \in ScoreVectors
  /\ weights \in {Undefined} \cup {Given(m) : m \in WeightMaps}
  /\ rc = NoConfigFile
  /\ aggregate = Dec(0, 0)
  /\ label = ""
  /\ sentences = <<>>
  /\ results = <<>>
  /\ IdleHook

SpecAggregate == InitAggregate /\ [][NextAggregate]_vars

\* the scores handed to getLabelForScore: 0.00 to 1.00 in steps of
\* 1 / ScoreSteps, the neighbours of the thresholds at 10^-10, a negative
\* score, a score above 1, and NaN
ScoreSteps == 100

ScoreInputs ==
  {Dec(k * (Half \div ScoreSteps), 0) : k \in 0..ScoreSteps}
    \cup {Dec(29999, 99999), Dec(30000, 0), Dec(30000, 1),
          Dec(59999, 99999), Dec(60000, 0), Dec(60000, 1),
          Dec(-1, 0), Dec(200000, 0), DecNaN}

\* getLabelForScore(aggregate) is called
Label ==
  /\ pc = "input"
  /\ label' = getLabelForScore(aggregate)
  /\ pc' = "labelled"
  /\ UNCHANGED <<text, ntok, vocab, matches, scores, weights, rc, aggregate,
                 sentences, results, hookVars, lastIndex, stdin, transcript>>

NextLabel == Label

InitLabel ==
  /\ NoText("label")
  /\ scores = <<>>
  /\ weights = Undefined
  /\ rc = NoConfigFile
  /\ aggregate \in ScoreInputs
  /\ label = ""
  /\ sentences = <<>>
  /\ results = <<>>
  /\ IdleHook

SpecLabel == InitLabel /\ [][NextLabel]_vars

InitFenced == InitWith("fenced")
SpecFenced == InitFenced /\ [][NextText]_vars

\* splitIntoSentences(text) is called on the message
Split ==
  /\ pc = "input"
  /\ sentences' = splitIntoSentences(text)
  /\ pc' = "split"
  /\ UNCHANGED <<text, ntok, vocab, matches, scores, weights, rc, aggregate,
                 label, results, hookVars, lastIndex, stdin, transcript>>

NextSplit ==
  \/ \E tok \in Vocab[vocab] : Type(tok)
  \/ Split

InitSplit == InitWith("split")
SpecSplit == InitSplit /\ [][NextSplit]_vars

\* the weights argument of scoreText: absent, partial, or the defaults
EngineWeights ==
  {Undefined, Given([k \in {"speculation_language"} |-> Num(100)]), Given(DEFAULT_WEIGHTS)}

\* either entry point of the engine is called on the message
NextEngine ==
  \/ \E tok \in Vocab[vocab] : Type(tok)
  \/ Detect
  \/ ScoreText

InitEngine ==
  /\ NoText("engine")
  /\ scores = <<>>
  /\ weights \in EngineWeights
  /\ rc = NoConfigFile
  /\ aggregate = Dec(0, 0)
  /\ label = ""
  /\ sentences = <<>>
  /\ results = <<>>
  /\ IdleHook

SpecEngine == InitEngine /\ [][NextEngine]_vars

\* a call of findTriggerMatches has returned r
Returned(r) ==
  /\ matches' = r.ms
  /\ lastIndex' = r.lastIndex

\* findTriggerMatches(text) is called in a process that has called it before
Call ==
  /\ pc \in {"input", "called"}
  /\ Returned(findTriggerMatchesFrom(text, lastIndex))
  /\ pc' = "called"
  /\ UNCHANGED <<text, ntok, vocab, scores, scoringVars, hookVars, stdin, transcript>>

\* the caller begins another text in the same process
NewText ==
  /\ pc = "called"
  /\ text' = ""
  /\ ntok' = 0
  /\ pc' = "input"
  /\ UNCHANGED <<vocab, matches, scores, scoringVars, hookVars, lastIndex, stdin, transcript>>

NextRepeat ==
  \/ \E tok \in Vocab[vocab] : Type(tok)
  \/ Call
  \/ NewText

InitCausality == InitWith("causality")
SpecCausality == InitCausality /\ [][Next]_vars

InitRepeat == InitWith("repeat")
SpecRepeat == InitRepeat /\ [][NextRepeat]_vars

-----------------------------------------------------------------------------
(* Vocabulary of the properties *)

done == pc = "done"

rawOf == normalizeForScan(text)

\* what the three removals leave, composed pass by pass
remainingOf == stripBlockquotes(stripInline(stripFences(rawOf)))

occurrences(s, p) == {i \in 0..(Len(s) - Len(p)) : slice(s, i, i + Len(p)) = p}

hasEvidence(e) == \E k \in 1..Len(matches) : matches[k].evidence = e
hasKind(kind)  == \E k \in 1..Len(matches) : matches[k].kind = kind

\* all the matches of a pattern in s, as with the g flag
RECURSIVE spansFrom(_, _, _)
spansFrom(re, s, from) ==
  LET m == execFrom(re, s, from)
  IN  IF m.index = -1 THEN {}
      ELSE {m} \cup spansFrom(re, s, IF m.end = m.index THEN m.end + 1 ELSE m.end)

toSet(seq) == {seq[k] : k \in 1..Len(seq)}

AllPhrases == toSet(speculationPhrases) \cup toSet(causalityPhrases) \cup toSet(completenessPhrases)

\* the line of s that holds index i
lineAt(s, i) ==
  LET a == lastIndexOf(s, "\n", i - 1) + 1
      b == indexOf(s, "\n", i)
  IN  slice(s, a, IF b = -1 THEN Len(s) ELSE b)

-----------------------------------------------------------------------------
(* C1 *)

insideFence(s, i, n)  == \E m \in spansFrom(FENCE_RE, s, 0) : m.index <= i /\ i + n <= m.end
insideInline(s, i, n) == \E m \in spansFrom(INLINE_RE, s, 0) : m.index < i /\ i + n < m.end
onQuoteLine(s, i)     == isBlockquoteLine(lineAt(s, i))

\* an occurrence of a phrase in the original text that lies in a closed fenced
\* block, in an inline span (texts without fences) or on a line starting with '>'
shielded(s, i, n) ==
  \/ insideFence(s, i, n)
  \/ (~includes(s, FENCE) /\ insideInline(s, i, n))
  \/ onQuoteLine(s, i)

\* C1 as stated: a phrase whose occurrences in the text all lie inside a closed
\* fenced block, inside an inline code span or on a line whose first non-blank
\* character is '>' never produces a Match.
C1_Original ==
  done => \A p \in AllPhrases :
            LET occ == occurrences(toLowerCase(rawOf), p)
            IN  (occ # {} /\ \A i \in occ : shielded(rawOf, i, Len(p))) => ~hasEvidence(p)

\* the phrase or matched text a Match reports
evidenceCore(e) ==
  IF e = "should be (epistemic)" THEN "should"
  ELSE IF e = "because (hedged)" THEN "because"
  ELSE toLowerCase(e)

\* C1 (amended): findTriggerMatches scans only what remains after the fenced
\* blocks, then the inline spans, then the lines that then begin with '>' have
\* been removed: the phrase or matched text of every Match occurs in that
\* remaining text, so a phrase absent from it never produces a Match.
C1_ScansOnlyRemaining ==
  done => \A k \in 1..Len(matches) :
            includes(toLowerCase(remainingOf), evidenceCore(matches[k].evidence))

\* a phrase of the text lies only in removed regions and the call has reported nothing for it
C1_Witness ==
  /\ done
  /\ includes(toLowerCase(rawOf), "probably")
  /\ ~includes(toLowerCase(remainingOf), "probably")
  /\ ~hasEvidence("probably")

-----------------------------------------------------------------------------
(* C2 *)

countEvidence(e) == Cardinality({k \in 1..Len(matches) : matches[k].evidence = e})

\* Below, h is the remaining text and l its lower-case form.

\* the question probe at the first occurrence of a phrase (FALSE when absent)
firstInQuestion(h, l, p) ==
  LET idx == indexOf(l, p, 0)
  IN  idx # -1 /\ isIndexWithinQuestion(h, idx)

\* every occurrence of a phrase is inside a question (and there is one)
allInQuestion(h, l, p) ==
  LET occ == occurrences(l, p)
  IN  occ # {} /\ \A i \in occ : isIndexWithinQuestion(h, i)

firstText(h, m) == trim(matched(h, m))

\* the first match of a pattern is inside a question
patternInQuestion(h, m) == m.index # -1 /\ isIndexWithinQuestion(h, m.index)

\* the matchers that consult the probe: none reports an occurrence in a question
QuestionExempt(h, l) ==
  /\ \A p \in toSet(speculationPhrases) : firstInQuestion(h, l, p) => ~hasEvidence(p)
  /\ firstInQuestion(h, l, "should be") => ~hasEvidence("should be")
  /\ \A p \in toSet(causalityPhrases) :
       allInQuestion(h, l, p)
         => ~hasEvidence(p) /\ (p = "because" => ~hasEvidence("because (hedged)"))
  /\ \A R \in toSet(structuralCausality) :
       LET m == execIn(R, h, l)
       IN  (patternInQuestion(h, m) /\ toLowerCase(firstText(h, m)) \notin toSet(causalityPhrases))
             => ~hasEvidence(firstText(h, m))
  /\ \A R \in toSet(completenessRegexes) :
       LET m == execIn(R, h, l)
       IN  (patternInQuestion(h, m) /\ firstText(h, m) \notin toSet(completenessPhrases))
             => ~hasEvidence(firstText(h, m))

\* the matchers that do not consult the probe
QuestionExemptOthers(h, l) ==
  /\ patternInQuestion(h, execIn(EPISTEMIC_SUBJECT_SHOULD, h, l))
       => ~hasEvidence("should be (epistemic)")
  /\ LET m == execIn(nOverTenRe, h, l)
     IN  patternInQuestion(h, m) => ~hasEvidence(matched(h, m))
  /\ LET m == execIn(percentRe, h, l)
     IN  patternInQuestion(h, m) => ~hasEvidence(matched(h, m))
  /\ \A p \in toSet(completenessPhrases) : firstInQuestion(h, l, p) => ~hasEvidence(p)

-----------------------------------------------------------------------------
(* C3 *)

\* C3: 'should' / 'should be' is classified in the order epistemic subject
\* (flagged, whatever else matches), hypothesis framing (suppressed),
\* instructional (suppressed), prescriptive (suppressed), plain 'should be'
\* (flagged unless the question probe is true at it); at most one such Match
\* is emitted per call.
C3_ShouldPrecedence ==
  done =>
    LET h == remainingOf
        l == toLowerCase(h)
        epistemic     == testIn(EPISTEMIC_SUBJECT_SHOULD, h, l)
        hypothesis    == testIn(HYPOTHESIS_SHOULD, h, l)
        instructional == testIn(INSTRUCTIONAL_SHOULD, h, l)
        prescriptive  == testIn(PRESCRIPTIVE_SHOULD, h, l)
        nEpistemic == countEvidence("should be (epistemic)")
        nPlain     == countEvidence("should be")
    IN  /\ nEpistemic + nPlain <= 1
        /\ epistemic => nEpistemic = 1
        /\ (~epistemic /\ (hypothesis \/ instructional \/ prescriptive))
             => nEpistemic + nPlain = 0
        /\ (~epistemic /\ ~hypothesis /\ ~instructional /\ ~prescriptive)
             => /\ nEpistemic = 0
                /\ nPlain = 1 <=> (includes(l, "should be") /\ ~firstInQuestion(h, l, "should be"))

\* the epistemic subject is flagged in a text in which a suppressing pattern
\* (here the prescriptive one) matches too
C3_Witness ==
  /\ done
  /\ LET h == remainingOf
         l == toLowerCase(h)
     IN  /\ testIn(EPISTEMIC_SUBJECT_SHOULD, h, l)
         /\ testIn(PRESCRIPTIVE_SHOULD, h, l)
  /\ countEvidence("should be (epistemic)") = 1

-----------------------------------------------------------------------------
(* C4 *)

\* a hedging word stands immediately before the 'because' at index i
hedgedAt(l, i) ==
  \E j \in 0..i : \E e \in toSet(ends(HEDGED_BECAUSE.ast, l, j)) : e = i + Len("because")

\* C4: for the occurrences of 'because' outside a question, a hedged one is
\* flagged whatever the evidence and an unhedged one is flagged exactly when
\* the evidence probe finds nothing near it; so 'because' is reported if and
\* only if some occurrence outside a question is hedged or lacks evidence.
C4_BecauseFlagged ==
  done =>
    LET raw == rawOf
        h == remainingOf
        l == toLowerCase(h)
        occ == {i \in occurrences(l, "because") : ~isIndexWithinQuestion(h, i)}
    IN  (hasEvidence("because") \/ hasEvidence("because (hedged)"))
          <=> \E i \in occ : hedgedAt(l, i) \/ ~hasEvidenceNearby(h, i, raw)

-----------------------------------------------------------------------------
(* C5 *)

\* an N/10 occurrence that is a quality score: the numerator is not 10 and it
\* is decimal or no count noun follows
qualityOccurrence(h, m) ==
  LET str    == matched(h, m)
      numStr == split(str, "/", 0)[1]
  IN  /\ ~parseFloatIsTen(numStr)
      /\ \/ includes(numStr, ".")
         \/ ~testRe(COUNT_NOUN_RE, slice(h, m.end, m.end + CountNounWindow))

\* C5: an N/10 pseudo_quantification Match is emitted if and only if the
\* remaining text contains, anywhere, an N/10 occurrence that is a quality score.
C5_ScoreAnywhere ==
  done =>
    LET h == remainingOf
        l == toLowerCase(h)
    IN  (\E k \in 1..Len(matches) :
           matches[k].kind = "pseudo_quantification" /\ includes(matches[k].evidence, "/"))
          <=> \E m \in spansFrom(nOverTenRe.ast, l, 0) : qualityOccurrence(h, m)

-----------------------------------------------------------------------------
(* C6 *)

\* 1 to 3 digits, optional decimals, then '%'
barePercent ==
  Cat(<<WordB, Rep(Digit, 1, 3), Opt(Cat(<<Lit("."), Plus(Digit)>>)), Lit("%")>>)

\* C6: a text whose remaining form contains a bare percentage value, whatever
\* follows the '%', yields a pseudo_quantification Match.
C6_PercentAlways ==
  done =>
    (test(barePercent, remainingOf)
       => \E k \in 1..Len(matches) :
            matches[k].kind = "pseudo_quantification" /\ includes(matches[k].evidence, "%"))

-----------------------------------------------------------------------------
(* C9 *)

\* C9: a speculation phrase is reported if and only if some occurrence of it
\* in the remaining text is outside a question, whatever the earlier
\* occurrences are.
C9_SomeOccurrence ==
  done =>
    LET h == remainingOf
        l == toLowerCase(h)
    IN  \A p \in toSet(speculationPhrases) :
          hasEvidence(p) <=> \E i \in occurrences(l, p) : ~isIndexWithinQuestion(h, i)

-----------------------------------------------------------------------------
(* C7 *)

\* optional blanks, then a number with '.' or ')', a '*' or a '-'
ItemMarker ==
  Cat(<<TextStart, Star(Space),
        Alt(<<Cat(<<Plus(Digit), Cls({".", ")"})>>), Lit("*"), Lit("-")>>)>>)

\* line k of the window starts with a list-item prefix: the marker and a blank
\* after it (the line break counts when the line is not the last one)
isItemLine(lines, k) ==
  \E e \in toSet(ends(ItemMarker, lines[k], 0)) :
    \/ charAt(lines[k], e) \in SpaceChars
    \/ (e = Len(lines[k]) /\ k < Len(lines))

\* the number of lines of the 200 characters before idx that start with a list-item prefix
itemLinesBefore(h, idx) ==
  LET lines == split(slice(h, MathMax(0, idx - EnumerationWindow), idx), "\n", 0)
  IN  Cardinality({k \in 1..Len(lines) : isItemLine(lines, k)})

-----------------------------------------------------------------------------
(* C8 *)

-----------------------------------------------------------------------------
(* C10 *)

scored == pc = "scored"

\* C10: the vector scoreSentence returns has exactly the five trigger kinds as
\* keys and values 0 or 1; a kind is 1 if and only if findTriggerMatches on
\* the same sentence returns a Match of that kind; fabricated_source is 0.
C10_BinaryScores ==
  scored =>
    LET ms == findTriggerMatches(text)
    IN  /\ DOMAIN scores = TriggerKinds
        /\ \A kind \in TriggerKinds :
             /\ scores[kind] \in {0, 1}
             /\ scores[kind] = 1 <=> \E k \in 1..Len(ms) : ms[k].kind = kind
        /\ scores["fabricated_source"] = 0

\* a sentence with matches of two kinds is scored: both are 1, another kind is 0
C10_Witness ==
  /\ scored
  /\ scores["speculation_language"] = 1
  /\ scores["pseudo_quantification"] = 1
  /\ scores["causality_language"] = 0
  /\ Len(findTriggerMatches(text)) >= 2

-----------------------------------------------------------------------------
(* C11 *)

aggregated == pc = "aggregated"

\* the entries of a weight map that count: a known category with a finite
\* non-negative number
validEntries(w) ==
  {k \in DOMAIN w \cap TriggerKinds : w[k].t = "num" /\ w[k].v >= 0}

RECURSIVE sumOver(_, _)
sumOver(f, keys) ==
  IF keys = {} THEN 0
  ELSE LET k == CHOOSE x \in keys : TRUE
       IN  f[k] + sumOver(f, keys \ {k})

\* C11: the result of aggregateWeightedScore is the sum of weight * score
\* over the valid entries divided by the sum of the valid weights; invalid
\* entries (unknown key, NaN, infinite, negative) count in neither sum, and
\* the result is 0 when no valid entry remains.
C11_IgnoresInvalid ==
  aggregated =>
    LET w     == IF weights.given THEN weights.map ELSE DEFAULT_WEIGHTS
        valid == validEntries(w)
        num   == sumOver([k \in valid |-> w[k].v * scoreOf(scores, k)], valid)
        den   == sumOver([k \in valid |-> w[k].v], valid)
    IN  aggregate = IF den = 0 THEN Dec(0, 0) ELSE roundedQuotient(num, den)

-----------------------------------------------------------------------------
(* C12 *)

labelled == pc = "labelled"

\* a score against a threshold of H * 10^-5, digit by digit
belowThreshold(a, H) == a.h < H
aboveThreshold(a, H) == a.h > H \/ (a.h = H /\ a.l > 0)

labelRank(l) ==
  CASE l = "GROUNDED"     -> 0
    [] l = "UNCERTAIN"    -> 1
    [] l = "HALLUCINATED" -> 2

\* C12: a score below 0.30 is GROUNDED, a score from 0.30 to 0.60, both
\* included, is UNCERTAIN, a score above 0.60 is HALLUCINATED; a higher score
\* never gets a lower label.
C12_LabelThresholds ==
  (labelled /\ aggregate.t = "num") =>
    /\ belowThreshold(aggregate, 30000) => label = "GROUNDED"
    /\ (~belowThreshold(aggregate, 30000) /\ ~aboveThreshold(aggregate, 60000))
         => label = "UNCERTAIN"
    /\ aboveThreshold(aggregate, 60000) => label = "HALLUCINATED"
    /\ \A b \in ScoreInputs :
         (b.t = "num" /\ (b.h > aggregate.h \/ (b.h = aggregate.h /\ b.l >= aggregate.l)))
           => labelRank(getLabelForScore(b)) >= labelRank(label)

\* the score 0.60 itself has been labelled UNCERTAIN
C12_Witness ==
  /\ labelled
  /\ aggregate = Dec(60000, 0)
  /\ label = "UNCERTAIN"

-----------------------------------------------------------------------------
(* C13 *)

scoredText == pc = "scoredText"

matchedKinds(r) == {kind \in TriggerKinds : r.scores[kind] = 1}

\* the categories for which findTriggerMatches has a matcher
MatcherKinds ==
  {"speculation_language", "causality_language", "pseudo_quantification",
   "completeness_claim"}

\* C13 as stated: with the default weights, a sentence that matches exactly
\* one category has that category's weight as aggregateScore, and a sentence
\* that matches every category a sentence can match has aggregateScore 1.0.
C13_Original ==
  (scoredText /\ Len(results) = 1) =>
    LET r == results[1]
    IN  /\ \A kind \in TriggerKinds :
             matchedKinds(r) = {kind} =>
               r.aggregateScore = Dec(DEFAULT_WEIGHTS[kind].v * 1000, 0)
        /\ MatcherKinds \subseteq matchedKinds(r) =>
             r.aggregateScore = Dec(100000, 0)

\* C13 amended: with the default weights the aggregateScore of a sentence is
\* the sum of the default weights of the categories it matches: the weight
\* of the category when there is one, and 0.9 (1.0 less the weight of
\* fabricated_source, which no sentence matches) when all four are matched.
C13_WeightSum ==
  scoredText =>
    \A k \in 1..Len(results) :
      LET r    == results[k]
          hit  == matchedKinds(r)
          cents == sumOver([kind \in hit |-> DEFAULT_WEIGHTS[kind].v], hit)
      IN  /\ r.aggregateScore = Dec(cents * 1000, 0)
          /\ hit \subseteq MatcherKinds
          /\ hit = MatcherKinds => r.aggregateScore = Dec(90000, 0)

\* a sentence that matches the four categories has been scored 0.9
C13_Witness ==
  /\ scoredText
  /\ Len(results) = 1
  /\ matchedKinds(results[1]) = MatcherKinds
  /\ results[1].aggregateScore = Dec(90000, 0)

-----------------------------------------------------------------------------
(* C14 *)

\* C14: scoreText returns one result per sentence of splitIntoSentences(text),
\* in the order of the text; every result carries the number of results as
\* total, and the index values are 0, 1, ..., total - 1 in that order; the
\* empty text gives no result.
C14_IndexTotal ==
  scoredText =>
    LET sents == splitIntoSentences(text)
    IN  /\ Len(results) = Len(sents)
        /\ \A k \in 1..Len(results) :
             /\ results[k].sentence = sents[k]
             /\ results[k].total = Len(results)
             /\ results[k].index = k - 1
        /\ text = "" => results = <<>>

\* a text of two sentences has been scored
C14_Witness ==
  /\ scoredText
  /\ Len(results) = 2
  /\ results[1].index = 0
  /\ results[2].index = 1
  /\ results[2].total = 2

-----------------------------------------------------------------------------
(* C15 *)

loaded == pc = "loaded"

validWeight(v) == v.t = "num" /\ v.v >= 0

\* C15: the map loadWeights returns has exactly the five category keys; a
\* key carries the supplied value if the config file supplies a finite
\* non-negative number for it and the default otherwise; no config file, or
\* one without a weights object, gives the defaults.
C15_ValidatedOverrides ==
  loaded =>
    LET supplied == IF rc.exists /\ ~rc.throws /\ rc.hasWeights
                      THEN rc.weights ELSE <<>>
        w == weights.map
    IN  /\ DOMAIN w = TriggerKinds
        /\ \A kind \in TriggerKinds :
             w[kind] = IF kind \in DOMAIN supplied /\ validWeight(supplied[kind])
                         THEN supplied[kind]
                         ELSE DEFAULT_WEIGHTS[kind]

-----------------------------------------------------------------------------
(* C16 *)

-----------------------------------------------------------------------------
(* C17 *)

\* C17: after every run of main(), stdout holds nothing or exactly one object
\* {decision: "block", reason: <string>}, and the exit code is 0; the block
\* object is there only if findTriggerMatches returned matches, and with no
\* match nothing is written.
C17_HookContract ==
  pc = "exited" =>
    /\ exitCode = 0
    /\ \/ stdout = <<>>
       \/ /\ Len(stdout) = 1
          /\ DOMAIN stdout[1] = {"decision", "reason"}
          /\ stdout[1].decision = "block"
          /\ Len(stdout[1].reason) > 0
    /\ stdout # <<>> => matches # <<>>
    /\ matches = <<>> => stdout = <<>>

-----------------------------------------------------------------------------
(* C18 *)

\* the k-th smallest element of a set of numbers
nth(S, k) == CHOOSE x \in S : Cardinality({y \in S : y < x}) = k - 1

\* an evidence marker stands in the 150 characters on each side of index i
markerNear(t, i) ==
  LET window == slice(t, MathMax(0, i - WindowSize), MathMin(Len(t), i + WindowSize))
  IN  \E k \in 1..Len(EVIDENCE_MARKERS) : testRe(EVIDENCE_MARKERS[k], window)

\* an inline code span stands in the 150 characters on each side of index o
\* of the original text
inlineSpanNear(raw, o) ==
  testRe(BACKTICK_RE,
         slice(raw, MathMax(0, o - WindowSize), MathMin(Len(raw), o + WindowSize)))

\* C18: the inline-code check looks at the original text around the trigger
\* itself: the k-th 'because' of the remaining text (no question, no hedge,
\* no 'since' in these texts) is reported if and only if no evidence marker
\* is near it in the remaining text and no inline code span is within 150
\* characters of the k-th 'because' of the original text.
C18_AlignedWindow ==
  done =>
    LET raw  == rawOf
        h    == remainingOf
        occS == occurrences(toLowerCase(h), "because")
        occR == occurrences(toLowerCase(raw), "because")
        due  == {k \in 1..Cardinality(occS) :
                   /\ ~markerNear(h, nth(occS, k))
                   /\ ~inlineSpanNear(raw, nth(occR, k))}
    IN  Cardinality(occS) = Cardinality(occR) =>
          countEvidence("because") = Cardinality(due)

-----------------------------------------------------------------------------
(* C19 *)

\* C19: the per-sentence path scores what region stripping leaves of the
\* whole text: a category scored 1 in some result of scoreText is scored 1 in
\* some sentence of the remaining text, so words inside a fenced code block
\* score nothing.
C19_StripBeforeSplit ==
  scoredText =>
    LET narrative == splitIntoSentences(remainingOf)
        backed    == {kind \in TriggerKinds :
                        \E k \in 1..Len(narrative) : scoreSentence(narrative[k])[kind] = 1}
    IN  \A k \in 1..Len(results) : matchedKinds(results[k]) \subseteq backed

-----------------------------------------------------------------------------
(* C20 *)

wasSplit == pc = "split"

\* a sentence-final mark followed by whitespace occurs in t
hasSentenceBreak(t) ==
  \E i \in 0..(Len(t) - 2) :
    charAt(t, i) \in {".", "!", "?"} /\ charAt(t, i + 1) \in SpaceChars

blank(t) == \A i \in 0..(Len(t) - 1) : charAt(t, i) \in SpaceChars

\* C20 as stated: a text without a sentence-final mark followed by whitespace
\* gives exactly one sentence, the trimmed text; the empty text gives none.
C20_Original ==
  wasSplit =>
    /\ (text # "" /\ ~hasSentenceBreak(text)) => sentences = <<trim(text)>>
    /\ text = "" => sentences = <<>>

\* C20 amended: a text without a sentence-final mark followed by whitespace
\* gives exactly one sentence, the trimmed text, unless it consists of
\* whitespace only; the empty text and a text of whitespace only give none.
C20_SingleSentence ==
  wasSplit =>
    /\ (~blank(text) /\ ~hasSentenceBreak(text)) => sentences = <<trim(text)>>
    /\ blank(text) => sentences = <<>>
    /\ \A k \in 1..Len(sentences) : sentences[k] # ""

\* a text with surrounding whitespace and no sentence break has been split
C20_Witness ==
  /\ wasSplit
  /\ ~hasSentenceBreak(text)
  /\ trim(text) # text
  /\ Len(sentences) = 1
  /\ sentences[1] = trim(text)

-----------------------------------------------------------------------------
(* C21 *)

SentenceMarks == {".", "!", "?"}

\* the indices where a run of whitespace begins right after a sentence mark
breaksOf(t) ==
  {i \in 1..(Len(t) - 1) :
     charAt(t, i - 1) \in SentenceMarks /\ charAt(t, i) \in SpaceChars}

\* the end of the whitespace run that holds index i
spaceRunEnd(t, i) ==
  Min({j \in i..Len(t) : j = Len(t) \/ charAt(t, j) \notin SpaceChars})

\* the elements of a set of numbers in increasing order
ascending(S) ==
  [k \in 1..Cardinality(S) |->
     CHOOSE x \in S : Cardinality({y \in S : y < x}) = k - 1]

\* the stretches of t between two breaks, first to last
stretches(t) ==
  LET from == ascending({0} \cup {spaceRunEnd(t, c) : c \in breaksOf(t)})
  IN  [k \in 1..Len(from) |->
         slice(t, from[k], Min({c \in breaksOf(t) : c > from[k]} \cup {Len(t)}))]

\* t without its whitespace
squeeze(t) == removeAll(Plus(Space), t, 0)

endsWithMark(str) == Len(str) > 0 /\ charAt(str, Len(str) - 1) \in SentenceMarks

\* C21: splitIntoSentences cuts the text at each run of whitespace that directly
\* follows '.', '!' or '?' and nowhere else; the pieces come back trimmed, in
\* input order and none empty; each mark stays at the end of the sentence
\* before its cut; no non-whitespace character is lost or reordered.
C21_SplitContract ==
  wasSplit =>
    LET trimmed == [k \in 1..Len(stretches(text)) |-> trim(stretches(text)[k])]
    IN  /\ sentences = SelectSeq(trimmed, LAMBDA str : str # "")
        /\ \A k \in 1..Len(sentences) :
              /\ sentences[k] # ""
              /\ trim(sentences[k]) = sentences[k]
              /\ ~hasSentenceBreak(sentences[k])
              /\ k < Len(sentences) => endsWithMark(sentences[k])
        /\ squeeze(join(sentences, "")) = squeeze(text)

\* a text with a break that is a run of several whitespace characters after
\* a mark other than the full stop has been split in two
C21_Witness ==
  /\ wasSplit
  /\ \E c \in breaksOf(text) :
       charAt(text, c - 1) = "?" /\ spaceRunEnd(text, c) > c + 1
  /\ Len(sentences) = 2

-----------------------------------------------------------------------------
(* C22 *)

\* C22: whatever the weight map, aggregateWeightedScore of a binary score
\* vector is a number of the closed interval [0, 1].
C22_UnitInterval ==
  aggregated =>
    /\ decLessEq(Dec(0, 0), aggregate)
    /\ decLessEq(aggregate, Dec(100000, 0))

-----------------------------------------------------------------------------
(* C23 *)

Labels == {"GROUNDED", "UNCERTAIN", "HALLUCINATED"}

isList(v) == DOMAIN v = 1..Len(v)

\* v is a Match: { kind, evidence }
isMatch(v) ==
  /\ DOMAIN v = {"kind", "evidence"}
  /\ v.kind \in TriggerKinds
  /\ v.evidence # ""

\* v is a SentenceResult
isSentenceResult(v) ==
  /\ DOMAIN v = {"sentence", "index", "total", "scores", "aggregateScore", "label"}
  /\ v.sentence # ""
  /\ DOMAIN v.scores = TriggerKinds
  /\ v.label \in Labels

\* C23: on every string, the empty one included, findTriggerMatches returns a
\* list of Matches and scoreText, with absent, partial or default weights,
\* returns a list of SentenceResults; on the empty string both lists are empty.
C23_Total ==
  /\ done =>
        /\ isList(matches)
        /\ \A k \in 1..Len(matches) : isMatch(matches[k])
        /\ text = "" => matches = <<>>
  /\ scoredText =>
        /\ isList(results)
        /\ \A k \in 1..Len(results) : isSentenceResult(results[k])
        /\ text = "" => results = <<>>

\* scoreText has been called on the empty string with a partial weight map
C23_Witness ==
  /\ scoredText
  /\ text = ""
  /\ weights.given
  /\ DOMAIN weights.map # TriggerKinds
  /\ results = <<>>

-----------------------------------------------------------------------------
(* C24 *)

called == pc = "called"

\* C24: whatever calls came before in the process, findTriggerMatches(text)
\* returns the list that the first call of a freshly loaded module returns
\* for that text, so two calls on one text return the same list; the module's
\* regular expressions carry nothing over from one call to the next.
C24_NoHiddenState ==
  /\ lastIndex = FreshRegexes
  /\ stdin = NoStdin
  /\ transcript = NoTranscript
  /\ called => matches = findTriggerMatchesFrom(text, FreshRegexes).ms

\* a text whose 'because' is suppressed by an inline code span, the probe
\* that runs BACKTICK_RE, has been scanned
C24_Witness ==
  /\ called
  /\ ntok = 2
  /\ includes(text, "because")
  /\ includes(text, BT)
  /\ matches = <<>>
  /\ lastIndex = FreshRegexes
  /\ stdin = NoStdin
  /\ transcript = NoTranscript

-----------------------------------------------------------------------------
(* C25 *)

\* the number of causality Matches whose evidence is the phrase
causalityFlags(phrase) ==
  Cardinality({k \in 1..Len(matches) :
                 matches[k] = Match("causality_language", phrase)})

\* a temporal reference stands in the window from 50 characters before to
\* 100 characters after index i
temporalNear(h, i) ==
  testRe(TEMPORAL_SINCE,
         slice(h, MathMax(0, i - SinceBefore), MathMin(Len(h), i + SinceAfter)))

\* the occurrences of the phrase that no rule suppresses
unsuppressed(phrase, raw, h, l) ==
  {i \in occurrences(l, phrase) :
     /\ ~isIndexWithinQuestion(h, i)
     /\ ~markerNear(h, i)
     /\ ~inlineSpanNear(raw, i)
     /\ phrase = "since" => ~temporalNear(h, i)}

OtherCausalityPhrases == toSet(causalityPhrases) \ {"because"}

\* C25 as stated: for every causality phrase other than 'because' the list
\* holds one Match for the phrase if some occurrence is outside a question,
\* without evidence nearby and, for 'since', without temporal reference
\* nearby, and none otherwise.
C25_Original ==
  done =>
    \A phrase \in OtherCausalityPhrases :
      causalityFlags(phrase) =
        IF unsuppressed(phrase, rawOf, remainingOf, toLowerCase(remainingOf)) = {}
          THEN 0 ELSE 1

\* C25 amended: for every causality phrase other than 'because' the list
\* holds a Match for the phrase if and only if some occurrence is outside a
\* question, without evidence nearby and, for 'since', without temporal
\* reference nearby; it holds at most one, except for 'resulted in', where
\* the passive-causality pattern adds a second Match with the same evidence.
C25_OneFlagPerPhrase ==
  done =>
    \A phrase \in OtherCausalityPhrases :
      /\ causalityFlags(phrase) >= 1
            <=> unsuppressed(phrase, rawOf, remainingOf, toLowerCase(remainingOf)) # {}
      /\ causalityFlags(phrase) <= IF phrase = "resulted in" THEN 2 ELSE 1

\* 'since' is flagged for a later occurrence although an earlier one is
\* suppressed as temporal
C25_Witness ==
  /\ done
  /\ causalityFlags("since") = 1
  /\ \E i, j \in occurrences(toLowerCase(remainingOf), "since") :
       /\ i < j
       /\ temporalNear(remainingOf, i)
       /\ ~temporalNear(remainingOf, j)
       /\ j \in unsuppressed("since", rawOf, remainingOf, toLowerCase(remainingOf))

-----------------------------------------------------------------------------
(* C26 *)

\* C26: with the default weights the label of a sentence of scoreText is
\* decided by the set of categories that fire: GROUNDED exactly when none
\* fires or one other than causality fires alone; HALLUCINATED exactly when
\* causality fires with at least two of the other three; UNCERTAIN otherwise,
\* the three non-causal categories together (0.60) included.  With at most
\* two categories the label is never HALLUCINATED.
C26_LabelByCategories ==
  scoredText =>
    \A k \in 1..Len(results) :
      LET fired  == matchedKinds(results[k])
          others == fired \ {"causality_language"}
          lbl    == results[k].label
      IN  /\ fired \subseteq MatcherKinds
          /\ lbl \in Labels
          /\ lbl = "GROUNDED"
                <=> (fired = {} \/ (Cardinality(fired) = 1 /\ others = fired))
          /\ lbl = "HALLUCINATED"
                <=> ("causality_language" \in fired /\ Cardinality(others) >= 2)
          /\ Cardinality(fired) <= 2 => lbl # "HALLUCINATED"

\* a sentence in which speculation, pseudo-quantification and completeness
\* fire without causality scores 0.60 and is UNCERTAIN
C26_Witness ==
  /\ scoredText
  /\ \E k \in 1..Len(results) :
       /\ matchedKinds(results[k]) = MatcherKinds \ {"causality_language"}
       /\ results[k].aggregateScore = Dec(60000, 0)
       /\ results[k].label = "UNCERTAIN"

-----------------------------------------------------------------------------
(* C27 *)

\* the step is an invocation of the hook (the counter file is not damaged in it)
invocation == pc' = "exited" /\ ~(blocks' = Unreadable /\ blocks # Unreadable)

\* the invocation got as far as findTriggerMatches
reachedDetection == stdin.json = "object" /\ stdin.hasTranscript /\ text # ""

\* the counter an invocation starts from
previousBlocks == IF blocks \in {NoFile, Unreadable} THEN 0 ELSE blocks

-----------------------------------------------------------------------------
(* C28 *)

\* the message of the invocation that has just run holds triggers
flagged == reachedDetection /\ matches # <<>>

\* the invocation that has just run found a message without triggers
troubleFree == reachedDetection /\ matches = <<>>

\* C28: once the stored counter is above 2, every invocation with a flagged
\* message and stop_hook_active set writes no block, and the counter stays
\* above 2 until an invocation with a trigger-free message sets it to 0;
\* from a counter below 2, as after that reset, a flagged invocation is
\* blocked, so the two flagged invocations after the reset are blocked.
C28_GuardPersists ==
  [][pc' = "exited" =>
       /\ (blocks > BlockThreshold /\ flagged' /\ stdin'.stop_hook_active)
             => (stdout' = <<>> /\ exitCode' = 0)
       /\ (blocks > BlockThreshold /\ ~troubleFree') => blocks' > BlockThreshold
       /\ troubleFree' => blocks' = 0
       /\ (previousBlocks < BlockThreshold /\ flagged')
             => (stdout' # <<>> /\ blocks' = previousBlocks + 1)]_vars

\* a flagged message with stop_hook_active set has been let through a
\* second time in the session
C28_Witness ==
  /\ pc = "exited"
  /\ flagged
  /\ stdin.stop_hook_active
  /\ blocks > BlockThreshold + 1
  /\ stdout = <<>>

-----------------------------------------------------------------------------
(* C29 *)

\* a main-chain assistant entry of the file has text
hasNarrative(file) ==
  \E k \in 1..Len(file.lines) :
    /\ file.lines[k].line = "json"
    /\ file.lines[k].obj
    /\ file.lines[k].type = "assistant"
    /\ ~file.lines[k].isSidechain
    /\ file.lines[k].hasMessage
    /\ extractTextFromMessageContent(file.lines[k].content) # ""

\* the input names no transcript, or the file is absent or blank, or it holds
\* no main-chain assistant entry with text
nothingToAudit(input, file) ==
  \/ ~(input.json = "object" /\ input.hasTranscript)
  \/ ~file.exists
  \/ isBlankFile(file.lines)
  \/ ~hasNarrative(file)

\* C29: an invocation with nothing to audit writes nothing to stdout, exits
\* with code 0 and leaves the counter file of the session as it was.
C29_FailOpen ==
  [][(pc' = "exited" /\ nothingToAudit(stdin', transcript')) =>
       (stdout' = <<>> /\ exitCode' = 0 /\ blocks' = blocks)]_vars

-----------------------------------------------------------------------------
(* C30 *)

\* the blocks of an array content that are objects and no tool calls
readable(content) ==
  SelectSeq(content.blocks, LAMBDA b : b.obj /\ b.type # "tool_use")

\* the text a readable block contributes: its text, else its content
blockText(b) ==
  IF b.hasText /\ trim(b.text) # "" THEN b.text
  ELSE IF b.hasContent /\ trim(b.content) # "" THEN b.content
  ELSE ""

\* the text of a message content once the tool calls are ignored
narrativeOf(content) ==
  IF content.kind = "string" THEN content.str
  ELSE IF content.kind # "array" THEN ""
  ELSE trim(join(SelectSeq([k \in 1..Len(readable(content)) |->
                              blockText(readable(content)[k])],
                           LAMBDA t : t # ""), "\n"))

\* a main-chain assistant entry with a message and text
qualifies(entry) ==
  /\ entry.obj
  /\ entry.type = "assistant"
  /\ ~entry.isSidechain
  /\ entry.hasMessage
  /\ narrativeOf(entry.content) # ""

qualifying(entries) == {k \in 1..Len(entries) : qualifies(entries[k])}

\* C30: getLastAssistantText returns the text, tool calls ignored, of the
\* last entry that is an assistant entry off the sidechain with a message and
\* non-empty text, and the empty string when no entry is one.
C30_LastNarrative ==
  pc = "extracted" =>
    IF qualifying(transcript.lines) = {} THEN text = ""
    ELSE \E k \in qualifying(transcript.lines) :
           /\ \A m \in qualifying(transcript.lines) : m <= k
           /\ text = narrativeOf(transcript.lines[k].content)

\* an earlier answer with another text, the answer with tool calls and text,
\* and a later sidechain answer that is skipped
C30_Witness ==
  /\ pc = "extracted"
  /\ Len(transcript.lines) = 3
  /\ qualifying(transcript.lines) = {1, 2}
  /\ transcript.lines[3].isSidechain
  /\ narrativeOf(transcript.lines[1].content) = "All done."
  /\ text = "It works."

=============================================================================
